---- MODULE Spec2Model ----
(***************************************************************************)
(* Signal ingestion pipeline: raw events -> scored, classified signals,    *)
(* merged or inserted against the signals table.                           *)
(*                                                                         *)
(* Units.  Sentiment and confidence are integers in thousandths (1000 is   *)
(* 1.0).  Time is counted in ticks of thirty minutes, so the 30 minute     *)
(* windows of the code are 1 tick.                                         *)
(***************************************************************************)
EXTENDS Integers, Sequences, FiniteSets, TLC

\* ------------------------------------------------------------------ bounds
\* Largest clock value (ticks of thirty minutes).
MaxTick == 2
\* Largest number of rows of raw_events.
MaxEvents == 2
\* The same, where invocations overlap.
MaxConcEvents == 1
\* Largest number of failures injected: storage errors and crashes.
MaxFaults == 1

\* ------------------------------------------------------- JavaScript values
undefined == "undefined"
null == "null"

\* obj.field of a JavaScript object: undefined when the object has no such
\* property.
Prop(obj, field) == IF field \in DOMAIN obj THEN obj[field] ELSE undefined

Min(a, b) == IF a < b THEN a ELSE b
Max(a, b) == IF a > b THEN a ELSE b
Abs(a) == IF a < 0 THEN 0 - a ELSE a

\* Elements of a sequence.
Range(s) == {s[i] : i \in DOMAIN s}

RECURSIVE SumSet(_, _)
SumSet(f, S) ==
  IF S = {} THEN 0
  ELSE LET x == CHOOSE y \in S : TRUE IN f[x] + SumSet(f, S \ {x})

\* ------------------------------------------------------------------- texts
\* A text item as the two external libraries see it.  chars, words, unique
\* and punct describe the preprocessed text (its length, its word count, its
\* number of distinct lower-cased words, its number of ! and ?); score, nan,
\* throws, scored and tokens are what wink-sentiment returns for it (raw
\* score, whether the score is NaN or missing, whether the call throws, the
\* number of tokens with a non-zero score, the number of tokens); phrases
\* are the booster phrases the lower-cased text contains; keywords is what
\* keyword-extractor returns.
Text(id, chars, words, unique, punct, score, nan, throws, scored, tokens, phrases, keywords) ==
  [id |-> id, chars |-> chars, words |-> words, unique |-> unique, punct |-> punct,
   score |-> score, nan |-> nan, throws |-> throws, scored |-> scored,
   tokens |-> tokens, phrases |-> phrases, keywords |-> keywords]

tOutage == Text("Network outage Dallas", 21, 3, 3, 0, 0 - 2, FALSE, FALSE, 1, 3,
                {"outage"}, <<"network", "outage", "dallas">>)
tDown == Text("network down dallas", 19, 3, 3, 0, 0 - 1, FALSE, FALSE, 1, 3,
              {"down"}, <<"network", "down", "dallas">>)
tBill == Text("Billing overcharge, terrible!!", 30, 3, 3, 2, 0 - 3, FALSE, FALSE, 1, 3,
              {"terrible"}, <<"billing", "overcharge", "terrible">>)
tRave == Text("Amazing fantastic excellent fixed amazing fantastic excellent fixed it is all so very good now",
              94, 16, 11, 0, 23, FALSE, FALSE, 9, 16,
              {"amazing", "fantastic", "excellent", "fixed"},
              <<"amazing", "fantastic", "excellent", "fixed">>)
tCrash == Text("app crash", 9, 2, 2, 0, 0, FALSE, TRUE, 0, 0,
               {}, <<"app", "crash">>)
tNaN == Text("down down down", 14, 3, 1, 0, 0, TRUE, FALSE, 0, 3,
             {"down"}, <<"down">>)
tEmpty == Text("", 0, 0, 0, 0, 0, FALSE, FALSE, 0, 0, {}, <<>>)

Texts == {tOutage, tDown, tBill, tRave, tCrash, tNaN, tEmpty}

\* ------------------------------------------------------- sentiment scoring
\* TELECOM_SENTIMENT_BOOSTERS, in hundredths.
TELECOM_SENTIMENT_BOOSTERS ==
  [p \in {"outage", "no signal", "no service", "unusable"} |-> 0 - 30] @@
  [p \in {"down", "dropped", "disconnected", "throttled", "terrible", "worst",
          "pathetic", "garbage"} |-> 0 - 25] @@
  [p \in {"slow", "lagging", "buffering", "congested"} |-> 0 - 20] @@
  [p \in {"fixed", "resolved", "restored", "working again"} |-> 30] @@
  [p \in {"improved", "excellent", "amazing", "fantastic"} |-> 25] @@
  [p \in {"working", "better", "reliable", "fast"} |-> 20]

\* Math.max(-1, Math.min(1, x)) in thousandths.
\* A scorer that returns the normalized score as it is.
clampScoreNone(x) == x

clampScore(x) == Max(0 - 1000, Min(1000, x))

assessTextQuality(text) ==
  LET wordCount == text.words
      hasExcessivePunctuation == text.punct * 10 > wordCount * 3
      hasExcessiveRepetition == text.unique * 10 < wordCount * 3
  IN IF wordCount < 3 \/ hasExcessivePunctuation \/ hasExcessiveRepetition THEN "low"
     ELSE IF wordCount >= 10 /\ text.chars >= 50 /\ text.unique * 10 > wordCount * 6
          THEN "high"
     ELSE "medium"

calculateConfidence(text, textQuality, textLength) ==
  LET base == IF textQuality = "high" THEN 800
              ELSE IF textQuality = "medium" THEN 600
              ELSE 300
      scoredTokens == text.scored
      boosted == IF scoredTokens > 5 THEN Min(950, base + 100)
                 ELSE IF scoredTokens > 2 THEN Min(900, base + 50)
                 ELSE IF scoredTokens = 0 THEN Max(200, base - 200)
                 ELSE base
      penalized == IF textLength < 10 THEN (boosted * 5) \div 10
                   ELSE IF textLength < 20 THEN (boosted * 7) \div 10
                   ELSE boosted
  IN Max(100, Min(950, penalized))

\* baseScore + avgBoost * 0.2, clamped; the quotient is rounded down to a
\* thousandth.
applyTelecomBoosters(text, baseScore) ==
  LET matched == text.phrases \cap DOMAIN TELECOM_SENTIMENT_BOOSTERS
      totalBoost == SumSet(TELECOM_SENTIMENT_BOOSTERS, matched)
      boostCount == Cardinality(matched)
  IN IF boostCount > 0
     THEN clampScore(baseScore + ((totalBoost * 2) \div boostCount))
     ELSE baseScore

analyzeSentiment(text) ==
  IF text.chars = 0
  THEN [score |-> 0, confidence |-> 0, rawScore |-> 0, normalizedScore |-> 0]
  ELSE IF text.throws
  THEN [score |-> 0, confidence |-> 100, rawScore |-> 0, normalizedScore |-> 0]
  ELSE LET textQuality == assessTextQuality(text)
           rawScore == IF text.nan THEN 0 ELSE text.score
           normalizedScore == clampScore((rawScore * 1000) \div 5)
           finalScore == clampScore(applyTelecomBoosters(text, normalizedScore))
       IN [score |-> finalScore,
           confidence |-> calculateConfidence(text, textQuality, text.chars),
           rawScore |-> rawScore,
           normalizedScore |-> normalizedScore]

\* --------------------------------------------------------- topic detection
PRODUCT_AREA_RULES ==
  [area \in {"Network", "Mobile App", "Billing", "Home Internet"} |->
    CASE area = "Network" ->
           {"network", "outage", "coverage", "signal", "5g", "lte", "4g", "down",
            "slow", "speed", "data", "connection", "connectivity", "bars",
            "reception", "tower", "dropped", "disconnected", "roaming"}
      [] area = "Mobile App" ->
           {"app", "login", "crash", "tuesdays", "account", "mobile app",
            "t-mobile app", "application", "interface", "ui", "ux",
            "feature", "button", "screen", "loading", "error message"}
      [] area = "Billing" ->
           {"bill", "charge", "payment", "price", "plan", "overcharge",
            "billing", "invoice", "cost", "fee", "refund", "credit",
            "autopay", "statement", "balance", "owe", "paid", "money"}
      [] area = "Home Internet" ->
           {"home internet", "gateway", "wifi", "router", "5g home",
            "home broadband", "modem", "wireless", "internet service",
            "home network", "tmhi", "t-mobile home", "home router"}]

\* Object.entries order of PRODUCT_AREA_RULES.
AreaOrder == <<"Network", "Mobile App", "Billing", "Home Internet">>

\* a.includes(b) for a # b, over the keywords of Texts and the rule keywords.
ProperSubstrings ==
  {<<"application", "app">>, <<"billing", "bill">>, <<"home network", "network">>,
   <<"mobile app", "app">>, <<"overcharge", "charge">>, <<"t-mobile app", "app">>}

includes(a, b) == a = b \/ <<a, b>> \in ProperSubstrings

extractKeywords(text) == IF text.chars = 0 THEN <<>> ELSE text.keywords

\* The number of keywords that match a rule keyword of the area (each keyword
\* counted once).
matchCountOf(keywords, area) ==
  Cardinality({i \in DOMAIN keywords :
    \E areaKeyword \in PRODUCT_AREA_RULES[area] :
      \/ keywords[i] = areaKeyword
      \/ includes(keywords[i], areaKeyword)
      \/ includes(areaKeyword, keywords[i])})

\* The scan for the highest score: a later area replaces the best one only
\* with a strictly higher score.
RECURSIVE bestAreaFrom(_, _, _, _)
bestAreaFrom(keywords, i, bestArea, bestScore) ==
  IF i > Len(AreaOrder) THEN [area |-> bestArea, score |-> bestScore]
  ELSE LET score == matchCountOf(keywords, AreaOrder[i])
       IN IF score > bestScore
          THEN bestAreaFrom(keywords, i + 1, AreaOrder[i], score)
          ELSE bestAreaFrom(keywords, i + 1, bestArea, bestScore)

\* confidence in thousandths, rounded down.
matchProductArea(keywords) ==
  IF Len(keywords) = 0 THEN [area |-> "General", confidence |-> 0]
  ELSE LET best == bestAreaFrom(keywords, 1, "General", 0)
           confidence == IF best.score > 0
                         THEN Min(1000, (best.score * 1000) \div Len(keywords))
                         ELSE 0
       IN IF confidence < 200 THEN [area |-> "General", confidence |-> 0]
          ELSE [area |-> best.area, confidence |-> confidence]

\* The topic string is represented by the words it joins with spaces; with no
\* keywords it is the lower-cased head of the text, represented by the text.
generateTopicString(keywords, text) ==
  IF Len(keywords) = 0 THEN <<text.id>>
  ELSE SubSeq(keywords, 1, Min(3, Len(keywords)))

detectTopic(text) ==
  IF text.chars = 0
  THEN [topic |-> <<>>, keywords |-> <<>>, productArea |-> "General", confidence |-> 0]
  ELSE LET keywords == extractKeywords(text)
           m == matchProductArea(keywords)
       IN [topic |-> generateTopicString(keywords, text),
           keywords |-> keywords,
           productArea |-> m.area,
           confidence |-> m.confidence]

\* -------------------------------------------------------------- deduplicator
\* 30 minutes, in ticks.
TIME_WINDOW_MS == 1

\* String.toLowerCase over the keywords of the model.
toLowerCase(k) ==
  IF k = "Network" THEN "network"
  ELSE IF k = "Outage" THEN "outage"
  ELSE IF k = "Dallas" THEN "dallas"
  ELSE k

\* The share of the first list's keywords that the second list has.
calculateKeywordCoverage(keywords1, keywords2) ==
  IF Len(keywords1) = 0 \/ Len(keywords2) = 0 THEN [num |-> 0, den |-> 1]
  ELSE LET set1 == {toLowerCase(k) : k \in Range(keywords1)}
           set2 == {toLowerCase(k) : k \in Range(keywords2)}
       IN [num |-> Cardinality({k \in set1 : k \in set2}), den |-> Cardinality(set1)]

\* The similarity as the fraction num/den (0 is 0/1).
calculateKeywordSimilarity(keywords1, keywords2) ==
  IF Len(keywords1) = 0 \/ Len(keywords2) = 0 THEN [num |-> 0, den |-> 1]
  ELSE LET set1 == {toLowerCase(k) : k \in Range(keywords1)}
           set2 == {toLowerCase(k) : k \in Range(keywords2)}
           matchCount == Cardinality({k \in set1 : k \in set2})
           union == set1 \cup set2
       IN [num |-> matchCount, den |-> Cardinality(union)]

isWithinTimeWindow(date1, date2) == Abs(date1 - date2) <= TIME_WINDOW_MS

\* A threshold that the similarity has to exceed.
aboveThreshold(similarity) == similarity.num * 2 > similarity.den

\* similarity >= KEYWORD_SIMILARITY_THRESHOLD (0.5), cross-multiplied.
atLeastThreshold(similarity) == similarity.num * 2 >= similarity.den

\* Reading .length of a missing keywords property throws a TypeError; the
\* second length is read only when the first is not 0.
areDuplicatesThrows(signal1, signal2) ==
  /\ Prop(signal1, "product_area") = Prop(signal2, "product_area")
  /\ isWithinTimeWindow(signal1.detected_at, signal2.detected_at)
  /\ \/ "keywords" \notin DOMAIN signal1
     \/ Len(signal1.keywords) # 0 /\ "keywords" \notin DOMAIN signal2

areDuplicates(signal1, signal2) ==
  IF Prop(signal1, "product_area") # Prop(signal2, "product_area") THEN FALSE
  ELSE IF ~isWithinTimeWindow(signal1.detected_at, signal2.detected_at) THEN FALSE
  ELSE IF "keywords" \notin DOMAIN signal1 \/ "keywords" \notin DOMAIN signal2 THEN FALSE
  ELSE atLeastThreshold(calculateKeywordSimilarity(signal1.keywords, signal2.keywords))

\* The index in existingSignals of the first duplicate of newSignal, 0 for
\* null.
findExistingDuplicate(newSignal, existingSignals) ==
  LET hits == {i \in DOMAIN existingSignals : areDuplicates(newSignal, existingSignals[i])}
  IN IF hits = {} THEN 0 ELSE CHOOSE i \in hits : \A j \in hits : i <= j

\* Whether the scan of existingSignals throws before it returns.
findExistingDuplicateThrows(newSignal, existingSignals) ==
  \E i \in DOMAIN existingSignals :
    /\ areDuplicatesThrows(newSignal, existingSignals[i])
    /\ \A j \in 1..(i - 1) : ~areDuplicates(newSignal, existingSignals[j])

\* existing.meta?.duplicate_count || 1
duplicateCountOrOne(existing) ==
  LET c == IF "meta" \in DOMAIN existing /\ "duplicate_count" \in DOMAIN existing.meta
           THEN existing.meta.duplicate_count ELSE 0
  IN IF c = 0 THEN 1 ELSE c

\* A merge that keeps the timestamp of the signal merged in.
mergeSignalsKeepNew(existing, newSignal) ==
  [sentiment |-> (existing.sentiment + newSignal.sentiment) \div 2,
   detected_at |-> newSignal.detected_at,
   meta |-> [f \in DOMAIN existing.meta \cup {"duplicate_count", "latest_source", "latest_detected"} |->
              CASE f = "duplicate_count" -> duplicateCountOrOne(existing) + 1
                [] f = "latest_source" -> newSignal.source
                [] f = "latest_detected" -> newSignal.detected_at
                [] OTHER -> existing.meta[f]]]

\* The fields of mergeSignals' result that differ from existing.  The sum is
\* halved rounding down to a thousandth.
mergeSignals(existing, newSignal) ==
  [sentiment |-> (existing.sentiment + newSignal.sentiment) \div 2,
   detected_at |-> IF existing.detected_at < newSignal.detected_at
                   THEN existing.detected_at ELSE newSignal.detected_at,
   meta |-> [f \in DOMAIN existing.meta \cup {"duplicate_count", "latest_source", "latest_detected"} |->
              CASE f = "duplicate_count" -> duplicateCountOrOne(existing) + 1
                [] f = "latest_source" -> newSignal.source
                [] f = "latest_detected" -> newSignal.detected_at
                [] OTHER -> existing.meta[f]]]

\* ---------------------------------------------------------------- extraction
\* A raw payload: its JSON shape and the items it holds in the place the
\* source's extraction rule reads (posts, events, user_comments, comments;
\* for istheservicedown the one text joined from the status message and the
\* mentions).  An item is a text with its optional location.
Item(text, geo) == [text |-> text, geo |-> geo]

ArraySources == {"reddit", "google-news", "tmobile-community"}
ObjectSources == {"outage-report", "downdetector", "customer-feedback"}

\* An extraction whose default branch reads the payload as a list of posts.
extractIndividualItemsDefault(rawPayload, source) ==
  IF source \in ObjectSources
  THEN IF rawPayload.shape = "object" THEN rawPayload.items ELSE <<>>
  ELSE IF rawPayload.shape = "array" THEN rawPayload.items ELSE <<>>

extractIndividualItems(rawPayload, source) ==
  IF source \in ArraySources
  THEN IF rawPayload.shape = "array" THEN rawPayload.items ELSE <<>>
  ELSE IF source \in ObjectSources
  THEN IF rawPayload.shape = "object" THEN rawPayload.items ELSE <<>>
  ELSE IF source = "istheservicedown"
  THEN IF rawPayload.shape = "object" /\ rawPayload.items # <<>>
          /\ rawPayload.items[1].text.chars # 0
       THEN <<Item(rawPayload.items[1].text, undefined)>>
       ELSE <<>>
  ELSE <<>>

\* What the scrapers can store: source, payload.
Scrapes ==
  {[source |-> "reddit",
    raw_payload |-> [shape |-> "array", items |-> <<Item(tOutage, undefined), Item(tDown, undefined)>>]],
   [source |-> "downdetector",
    raw_payload |-> [shape |-> "object", items |-> <<Item(tCrash, "Dallas"), Item(tNaN, undefined)>>]],
   [source |-> "outage-report",
    raw_payload |-> [shape |-> "object", items |-> <<Item(tEmpty, undefined), Item(tRave, undefined)>>]],
   [source |-> "twitter",
    raw_payload |-> [shape |-> "array", items |-> <<Item(tBill, undefined)>>]]}

\* The product_areas reference table: name -> id.  "General" is no row of it.
product_areas ==
  [name \in {"Network", "Mobile App", "Billing", "Home Internet"} |->
    CASE name = "Network" -> "pa-network"
      [] name = "Mobile App" -> "pa-app"
      [] name = "Billing" -> "pa-billing"
      [] name = "Home Internet" -> "pa-home"]

\* mapProductAreaToId: null on a query error or when no row has the name.
mapProductAreaToId(productAreaName, queryOk) ==
  IF queryOk /\ productAreaName \in DOMAIN product_areas
  THEN product_areas[productAreaName]
  ELSE null

\* ---------------------------------------------------------------------- state
\* Invocation slots of POST /api/process/raw.
Procs == {1, 2}
\* With one invocation at a time, one slot is used over and over.
SeqProcs == {1}

\* .limit(100) of the raw_events query.
BATCH_LIMIT == 100
\* 30 * 60 * 1000 ms of thirtyMinsAgo, in ticks.
RECENT_WINDOW == 1

VARIABLES
  now,                 \* the wall clock, in ticks
  raw_events,          \* the raw_events table, in created_at order
  signals,             \* the signals table; a row's id is its position
  faults,              \* failures injected so far
  pc,                  \* where each invocation stands
  unprocessedEvents,   \* POST: the rows fetched
  evIdx,               \* POST: position of the event loop
  successCount,        \* POST
  totalSignalsCreated, \* POST
  processedEventIds,   \* POST
  items,               \* processEvent: the items of the current event
  itemIdx,             \* processEvent: position of the item loop
  signalsCreated,      \* processEvent
  productAreaId,       \* processSingleItem
  recentSignals,       \* processSingleItem
  response,            \* the invocation's HTTP response
  attempted,           \* history: the <<event id, item position>> pairs handed to processSingleItem
  writesSucceeded,     \* history: inserts and updates of signals that returned no error
  settled              \* history: the tables as the last invocation that completed its batch left them

\* The aggregation engine (calculateCHI, getCHITrend) and the inputs and
\* results of the deduplicator's functions over lists.
VARIABLES
  dateNow,             \* Date.now() of the aggregation engine, in units of 150 seconds
  signalRows,          \* the signals table as the aggregation engine reads it
  chiCache,            \* the Map chiCache: key -> [value, timestamp, productAreaId]
  computedFrom,        \* history: key -> the call and the rows its entry was computed from
  call,                \* the calculateCHI or getCHITrend call in flight, or its result
  dedupInput,          \* the list of signals handed to the deduplicator
  dedupResult          \* what the deduplicator returned for it

\* The early warning routes: snapshot capture and rising issues.
VARIABLES
  warningSignals,      \* the signals table as the two routes read it
  snapshotRows,        \* the table signal_intensity_snapshots
  capture,             \* the capture-snapshots request: not yet made, or its response
  rising               \* the rising-issues request in flight, or its response

tables == <<raw_events, signals>>
postLocals == <<unprocessedEvents, evIdx, successCount, totalSignalsCreated, processedEventIds>>
eventLocals == <<items, itemIdx, signalsCreated>>
itemLocals == <<productAreaId, recentSignals>>
pipelineVars == <<now, tables, faults, pc, postLocals, eventLocals, itemLocals, response, attempted, writesSucceeded, settled>>
aggregationVars == <<dateNow, signalRows, chiCache, computedFrom, call>>
dedupVars == <<dedupInput, dedupResult>>
warningVars == <<warningSignals, snapshotRows, capture, rising>>
vars == <<pipelineVars, aggregationVars, dedupVars, warningVars>>

NoResponse == [status |-> 0, message |-> "none"]
NeverSettled == [valid |-> FALSE, n |-> 0, attemptedAll |-> FALSE, signals |-> <<>>]

\* A Map without entries.
EmptyMap == [k \in {} |-> 0]
NoCall == [stage |-> "idle", n |-> 0]
NoResult == [op |-> "none"]

PipelineInit ==
  /\ now = 0
  /\ raw_events = <<>>
  /\ signals = <<>>
  /\ faults = 0
  /\ pc = [p \in Procs |-> "idle"]
  /\ unprocessedEvents = [p \in Procs |-> <<>>]
  /\ evIdx = [p \in Procs |-> 1]
  /\ successCount = [p \in Procs |-> 0]
  /\ totalSignalsCreated = [p \in Procs |-> 0]
  /\ processedEventIds = [p \in Procs |-> <<>>]
  /\ items = [p \in Procs |-> <<>>]
  /\ itemIdx = [p \in Procs |-> 1]
  /\ signalsCreated = [p \in Procs |-> 0]
  /\ productAreaId = [p \in Procs |-> null]
  /\ recentSignals = [p \in Procs |-> <<>>]
  /\ response = [p \in Procs |-> NoResponse]
  /\ attempted = [p \in Procs |-> {}]
  /\ writesSucceeded = 0
  /\ settled = NeverSettled

AggregationInit ==
  /\ dateNow = 0
  /\ signalRows = <<>>
  /\ chiCache = EmptyMap
  /\ computedFrom = EmptyMap
  /\ call = NoCall

\* No request made.
NoRequest == [stage |-> "idle"]

WarningIdle ==
  /\ warningSignals = <<>>
  /\ snapshotRows = <<>>
  /\ capture = NoRequest
  /\ rising = NoRequest

Init ==
  /\ PipelineInit
  /\ AggregationInit
  /\ dedupInput = <<>>
  /\ dedupResult = NoResult
  /\ WarningIdle

Active(p) == pc[p] \in {"event", "map", "query", "write", "flag"}

\* The event and the item an invocation is working on.
event(p) == unprocessedEvents[p][evIdx[p]]
item(p) == items[p][itemIdx[p]]

\* A storage call answers without an error or, within the failure budget,
\* with one.
Answers == IF faults < MaxFaults THEN {TRUE, FALSE} ELSE {TRUE}
faultsAfter(ok) == IF ok THEN faults ELSE faults + 1

\* Locals that go out of scope when a function returns.
DropItemLocals(p) ==
  /\ productAreaId' = [productAreaId EXCEPT ![p] = null]
  /\ recentSignals' = [recentSignals EXCEPT ![p] = <<>>]

DropEventLocals(p) ==
  /\ items' = [items EXCEPT ![p] = <<>>]
  /\ itemIdx' = [itemIdx EXCEPT ![p] = 1]
  /\ signalsCreated' = [signalsCreated EXCEPT ![p] = 0]

DropPostLocals(p) ==
  /\ unprocessedEvents' = [unprocessedEvents EXCEPT ![p] = <<>>]
  /\ evIdx' = [evIdx EXCEPT ![p] = 1]
  /\ successCount' = [successCount EXCEPT ![p] = 0]
  /\ totalSignalsCreated' = [totalSignalsCreated EXCEPT ![p] = 0]
  /\ processedEventIds' = [processedEventIds EXCEPT ![p] = <<>>]
  /\ attempted' = [attempted EXCEPT ![p] = {}]

\* ------------------------------------------------------------- environment
\* A scrape route stores one raw event, unprocessed, fetched now.
Scrape ==
  /\ UNCHANGED <<aggregationVars, dedupVars, warningVars>>
  /\ Len(raw_events) < MaxEvents
  /\ \E s \in Scrapes :
       raw_events' = Append(raw_events,
         [id |-> Len(raw_events) + 1, source |-> s.source, raw_payload |-> s.raw_payload,
          fetched_at |-> now, processed |-> FALSE])
  /\ UNCHANGED <<now, signals, faults, pc, postLocals, eventLocals, itemLocals,
                 response, attempted, writesSucceeded, settled>>

\* The same, for the runs with overlapping invocations.
ScrapeConc ==
  /\ Len(raw_events) < MaxConcEvents
  /\ Scrape

\* Thirty minutes pass.
Tick ==
  /\ UNCHANGED <<aggregationVars, dedupVars, warningVars>>
  /\ now < MaxTick
  /\ now' = now + 1
  /\ UNCHANGED <<tables, faults, pc, postLocals, eventLocals, itemLocals,
                 response, attempted, writesSucceeded, settled>>

\* ------------------------------------------------------------------- POST
\* A query without the limit.
selectUnprocessedAll(rows) == SelectSeq(rows, LAMBDA e : ~e.processed)

\* .eq('processed', false).order('created_at').limit(100)
selectUnprocessed(rows) ==
  LET pending == SelectSeq(rows, LAMBDA e : ~e.processed)
  IN SubSeq(pending, 1, Min(BATCH_LIMIT, Len(pending)))

\* POST up to the event loop: the query of raw_events fails (500), finds
\* nothing, or hands the loop its batch.
FetchUnprocessed(p) ==
  /\ UNCHANGED <<aggregationVars, dedupVars, warningVars>>
  /\ ~Active(p)
  /\ \E queryOk \in Answers :
       LET fetched == selectUnprocessed(raw_events) IN
       /\ faults' = faultsAfter(queryOk)
       /\ IF ~queryOk
          THEN /\ pc' = [pc EXCEPT ![p] = "done"]
               /\ response' = [response EXCEPT ![p] =
                    [status |-> 500, message |-> "Failed to query raw events"]]
               /\ UNCHANGED unprocessedEvents
          ELSE IF Len(fetched) = 0
          THEN /\ pc' = [pc EXCEPT ![p] = "done"]
               /\ response' = [response EXCEPT ![p] =
                    [status |-> 200, message |-> "No unprocessed events found",
                     processed |-> 0, signalsCreated |-> 0]]
               /\ UNCHANGED unprocessedEvents
          ELSE /\ pc' = [pc EXCEPT ![p] = "event"]
               /\ response' = [response EXCEPT ![p] = NoResponse]
               /\ unprocessedEvents' = [unprocessedEvents EXCEPT ![p] = fetched]
  /\ UNCHANGED <<now, tables, evIdx, successCount, totalSignalsCreated, processedEventIds,
                 eventLocals, itemLocals, attempted, writesSucceeded, settled>>

\* The pc after the event at evIdx[p] has returned: the loop's next event or
\* the bulk write.
\* A loop of POST that goes to the flag write after each event.
afterEventFlagEach(p) == "flag"

afterEvent(p) == IF evIdx[p] < Len(unprocessedEvents[p]) THEN "event" ELSE "flag"

\* processEvent up to its item loop: an event without items returns success
\* with no signal at once.
ProcessEvent(p) ==
  /\ UNCHANGED <<aggregationVars, dedupVars, warningVars>>
  /\ pc[p] = "event"
  /\ LET extracted == extractIndividualItems(event(p).raw_payload, event(p).source) IN
     IF Len(extracted) = 0
     THEN /\ successCount' = [successCount EXCEPT ![p] = @ + 1]
          /\ processedEventIds' = [processedEventIds EXCEPT ![p] = Append(@, event(p).id)]
          /\ evIdx' = [evIdx EXCEPT ![p] = @ + 1]
          /\ pc' = [pc EXCEPT ![p] = afterEvent(p)]
          /\ UNCHANGED eventLocals
     ELSE /\ items' = [items EXCEPT ![p] = extracted]
          /\ itemIdx' = [itemIdx EXCEPT ![p] = 1]
          /\ signalsCreated' = [signalsCreated EXCEPT ![p] = 0]
          /\ pc' = [pc EXCEPT ![p] = "map"]
          /\ UNCHANGED <<evIdx, successCount, processedEventIds>>
  /\ UNCHANGED <<now, tables, faults, unprocessedEvents, totalSignalsCreated,
                 itemLocals, response, attempted, writesSucceeded, settled>>

\* ------------------------------------------------------ processSingleItem
\* processSingleItem up to the signals query: scoring and classification are
\* recomputed from the item where they are used; the product_areas lookup
\* answers with an id or with null.
MapProductArea(p) ==
  /\ UNCHANGED <<aggregationVars, dedupVars, warningVars>>
  /\ pc[p] = "map"
  /\ \E queryOk \in Answers :
       /\ faults' = faultsAfter(queryOk)
       /\ productAreaId' = [productAreaId EXCEPT ![p] =
            mapProductAreaToId(detectTopic(item(p).text).productArea, queryOk)]
  /\ recentSignals' = [recentSignals EXCEPT ![p] = <<>>]
  /\ attempted' = [attempted EXCEPT ![p] = @ \cup {<<event(p).id, itemIdx[p]>>}]
  /\ pc' = [pc EXCEPT ![p] = "query"]
  /\ UNCHANGED <<now, tables, postLocals, eventLocals, response, writesSucceeded, settled>>

\* .eq('product_area_id', id).gte('detected_at', thirtyMinsAgo), rows in table
\* order.
selectRecent(rows, areaId, thirtyMinsAgo) ==
  SelectSeq(rows, LAMBDA r : r.product_area_id = areaId /\ r.detected_at >= thirtyMinsAgo)

\* The query of recent signals: skipped without a product area id, and a
\* query error leaves recentSignals empty.
QueryRecent(p) ==
  /\ UNCHANGED <<aggregationVars, dedupVars, warningVars>>
  /\ pc[p] = "query"
  /\ IF productAreaId[p] # null
     THEN \E queryOk \in Answers :
            /\ faults' = faultsAfter(queryOk)
            /\ recentSignals' = [recentSignals EXCEPT ![p] =
                 IF queryOk THEN selectRecent(signals, productAreaId[p], now - RECENT_WINDOW)
                 ELSE <<>>]
     ELSE /\ recentSignals' = [recentSignals EXCEPT ![p] = <<>>]
          /\ UNCHANGED faults
  /\ pc' = [pc EXCEPT ![p] = "write"]
  /\ UNCHANGED <<now, tables, postLocals, eventLocals, productAreaId,
                 response, attempted, writesSucceeded, settled>>

\* The candidate built from the item (a Signal of the deduplicator).
newSignalOf(text, ev, clock) ==
  LET sentimentResult == analyzeSentiment(text)
      topicResult == detectTopic(text)
  IN [topic |-> topicResult.topic,
      keywords |-> topicResult.keywords,
      sentiment |-> sentimentResult.score,
      detected_at |-> IF "fetched_at" \in DOMAIN ev THEN ev.fetched_at ELSE clock,
      source |-> ev.source,
      product_area |-> topicResult.productArea,
      meta |-> [original_text |-> text.id,
                confidence |-> topicResult.confidence,
                sentiment_confidence |-> sentimentResult.confidence,
                raw_event_id |-> ev.id,
                keywords |-> topicResult.keywords]]

\* An insert that stores the number of rows as the new row's intensity.
insertSignalCounting(rows, newSignal, areaId, geo) ==
  Append(rows,
    [id |-> Len(rows) + 1,
     source |-> newSignal.source,
     detected_at |-> newSignal.detected_at,
     sentiment |-> newSignal.sentiment,
     topic |-> newSignal.topic,
     intensity |-> Len(rows) + 1,
     product_area_id |-> areaId,
     geo |-> geo,
     meta |-> newSignal.meta])

\* The row .insert() adds: the columns the code names, and the id the table
\* gives it.
insertSignal(rows, newSignal, areaId, geo) ==
  Append(rows,
    [id |-> Len(rows) + 1,
     source |-> newSignal.source,
     detected_at |-> newSignal.detected_at,
     sentiment |-> newSignal.sentiment,
     topic |-> newSignal.topic,
     intensity |-> 1,
     product_area_id |-> areaId,
     geo |-> geo,
     meta |-> newSignal.meta])

\* .update({sentiment, intensity, meta}).eq('id', existingDuplicate.id)
updateSignal(rows, existingDuplicate, newSignal) ==
  LET mergedSignal == mergeSignals(existingDuplicate, newSignal)
  IN [i \in DOMAIN rows |->
       IF rows[i].id = existingDuplicate.id
       THEN [rows[i] EXCEPT !.sentiment = mergedSignal.sentiment,
                            !.intensity = duplicateCountOrOne(existingDuplicate) + 1,
                            !.meta = mergedSignal.meta]
       ELSE rows[i]]

\* The position in recent of the duplicate to merge into, 0 for none.
existingDuplicateOf(newSignal, recent) ==
  IF Len(recent) > 0 THEN findExistingDuplicate(newSignal, recent) ELSE 0

\* A write that looks for the duplicate in the table as it is at the write.
writeSignalAtomic(rows, recent, newSignal, areaId, geo) ==
  LET hits == {i \in DOMAIN rows :
                 /\ areaId # null
                 /\ rows[i].product_area_id = areaId
                 /\ isWithinTimeWindow(newSignal.detected_at, rows[i].detected_at)
                 /\ atLeastThreshold(calculateKeywordSimilarity(newSignal.keywords,
                                                                rows[i].meta.keywords))}
  IN IF hits # {} THEN rows ELSE insertSignal(rows, newSignal, areaId, geo)

\* A write that stores nothing for an item without a product area id.
writeSignalFatal(rows, recent, newSignal, areaId, geo) ==
  IF areaId = null THEN rows ELSE insertSignal(rows, newSignal, areaId, geo)

\* The table after the write of processSingleItem has succeeded.
writeSignal(rows, recent, newSignal, areaId, geo) ==
  LET dup == existingDuplicateOf(newSignal, recent)
  IN IF dup # 0
     THEN updateSignal(rows, recent[dup], newSignal)
     ELSE insertSignal(rows, newSignal, areaId, geo)

\* The pc after processSingleItem has returned success or not: the next item
\* of the event, or what follows the event.
\* An item loop that a failed item ends, together with the batch.
afterItemAbort(p, success) ==
  IF ~success THEN "flag"
  ELSE IF itemIdx[p] < Len(items[p]) THEN "map" ELSE afterEvent(p)

afterItem(p, success) == IF itemIdx[p] < Len(items[p]) THEN "map" ELSE afterEvent(p)

\* processSingleItem from the duplicate check to its return, and the loops
\* around it: the write is an update of the duplicate found or an insert;
\* a write error or an exception returns false; then the next item, or the
\* event returns success and the loop of POST moves on.
WriteSignal(p) ==
  /\ UNCHANGED <<aggregationVars, dedupVars, warningVars>>
  /\ pc[p] = "write"
  /\ \E writeOk \in Answers :
       LET newSignal == newSignalOf(item(p).text, event(p), now)
           throws == Len(recentSignals[p]) > 0
                     /\ findExistingDuplicateThrows(newSignal, recentSignals[p])
           success == writeOk /\ ~throws
           created == signalsCreated[p] + (IF success THEN 1 ELSE 0)
       IN /\ faults' = faultsAfter(writeOk)
          /\ signals' = IF success
                        THEN writeSignal(signals, recentSignals[p], newSignal,
                                         productAreaId[p], item(p).geo)
                        ELSE signals
          /\ writesSucceeded' = writesSucceeded + (IF success THEN 1 ELSE 0)
          /\ IF itemIdx[p] < Len(items[p])
             THEN /\ signalsCreated' = [signalsCreated EXCEPT ![p] = created]
                  /\ itemIdx' = [itemIdx EXCEPT ![p] = @ + 1]
                  /\ pc' = [pc EXCEPT ![p] = afterItem(p, success)]
                  /\ UNCHANGED <<items, evIdx, successCount, totalSignalsCreated,
                                 processedEventIds>>
             ELSE /\ DropEventLocals(p)
                  /\ successCount' = [successCount EXCEPT ![p] = @ + 1]
                  /\ totalSignalsCreated' = [totalSignalsCreated EXCEPT ![p] = @ + created]
                  /\ processedEventIds' = [processedEventIds EXCEPT ![p] = Append(@, event(p).id)]
                  /\ evIdx' = [evIdx EXCEPT ![p] = @ + 1]
                  /\ pc' = [pc EXCEPT ![p] = afterItem(p, success)]
  /\ DropItemLocals(p)
  /\ UNCHANGED <<now, raw_events, unprocessedEvents, response, attempted, settled>>

\* A bulk write that flags only the events a stored signal came from.
flagProcessedStored(rows, ids) ==
  [i \in DOMAIN rows |->
    IF /\ rows[i].id \in Range(ids)
       /\ \E k \in DOMAIN signals : signals[k].meta.raw_event_id = rows[i].id
    THEN [rows[i] EXCEPT !.processed = TRUE] ELSE rows[i]]

\* .update({processed: true}).in('id', processedEventIds)
flagProcessed(rows, ids) ==
  [i \in DOMAIN rows |->
    IF rows[i].id \in Range(ids) THEN [rows[i] EXCEPT !.processed = TRUE] ELSE rows[i]]

\* POST after the loop: one bulk write flags the events collected, an error
\* of that write is logged, and the response reports the counts.
MarkProcessed(p) ==
  /\ UNCHANGED <<aggregationVars, dedupVars, warningVars>>
  /\ pc[p] = "flag"
  /\ IF Len(processedEventIds[p]) > 0
     THEN \E updateOk \in Answers :
            /\ faults' = faultsAfter(updateOk)
            /\ raw_events' = IF updateOk
                             THEN flagProcessed(raw_events, processedEventIds[p])
                             ELSE raw_events
     ELSE UNCHANGED <<raw_events, faults>>
  /\ response' = [response EXCEPT ![p] =
       [status |-> 200, message |-> "Processing complete",
        processed |-> successCount[p],
        signalsCreated |-> totalSignalsCreated[p],
        total |-> Len(unprocessedEvents[p])]]
  /\ pc' = [pc EXCEPT ![p] = "done"]
  /\ settled' =
       [valid |-> TRUE,
        n |-> Len(raw_events),
        attemptedAll |-> \A i \in DOMAIN raw_events :
                          raw_events[i].processed \/ raw_events[i].id \in Range(processedEventIds[p]),
        signals |-> signals]
  /\ DropPostLocals(p)
  /\ UNCHANGED <<now, signals, eventLocals, itemLocals, writesSucceeded>>

\* The process serving an invocation dies between two steps.
Crash(p) ==
  /\ UNCHANGED <<aggregationVars, dedupVars, warningVars>>
  /\ Active(p)
  /\ faults < MaxFaults
  /\ faults' = faults + 1
  /\ pc' = [pc EXCEPT ![p] = "crashed"]
  /\ DropPostLocals(p)
  /\ DropEventLocals(p)
  /\ DropItemLocals(p)
  /\ UNCHANGED <<now, tables, response, writesSucceeded, settled>>

\* ---------------------------------------------------------- specifications
Step(p) ==
  \/ FetchUnprocessed(p)
  \/ ProcessEvent(p)
  \/ MapProductArea(p)
  \/ QueryRecent(p)
  \/ WriteSignal(p)
  \/ MarkProcessed(p)
  \/ Crash(p)

\* One invocation at a time.
Next ==
  \/ Scrape
  \/ Tick
  \/ \E p \in SeqProcs : Step(p)

Spec == Init /\ [][Next]_vars

\* ---- a backlog
\* The numbers of raw events of a backlog: below, one above and two above
\* the limit of a batch.
BacklogSizes == {2, BATCH_LIMIT + 1, BATCH_LIMIT + 2}

\* The events of a backlog that are flagged already.
BacklogFlagged == {{}, {1}, {2, 50}}

\* A raw_events table of n events in the order of their creation: the event
\* at rich is a reddit event of one post, the others are of a source
\* without extraction rule; the events at done are flagged.
backlog(n, rich, done) ==
  [i \in 1..n |->
     [id |-> i,
      source |-> IF i = rich THEN "reddit" ELSE "twitter",
      raw_payload |-> IF i = rich
                      THEN [shape |-> "array",
                            items |-> <<Item(tOutage, undefined)>>]
                      ELSE [shape |-> "array", items |-> <<Item(tBill, undefined)>>],
      fetched_at |-> 0,
      processed |-> i \in done]]

Backlogs ==
  {backlog(n, rich, done) : n \in BacklogSizes, rich \in {1, 2}, done \in BacklogFlagged}

\* The tables hold a backlog and no invocation has run.
InitBacklog ==
  /\ now = 0
  /\ raw_events \in Backlogs
  /\ signals = <<>>
  /\ faults = 0
  /\ pc = [p \in Procs |-> "idle"]
  /\ unprocessedEvents = [p \in Procs |-> <<>>]
  /\ evIdx = [p \in Procs |-> 1]
  /\ successCount = [p \in Procs |-> 0]
  /\ totalSignalsCreated = [p \in Procs |-> 0]
  /\ processedEventIds = [p \in Procs |-> <<>>]
  /\ items = [p \in Procs |-> <<>>]
  /\ itemIdx = [p \in Procs |-> 1]
  /\ signalsCreated = [p \in Procs |-> 0]
  /\ productAreaId = [p \in Procs |-> null]
  /\ recentSignals = [p \in Procs |-> <<>>]
  /\ response = [p \in Procs |-> NoResponse]
  /\ attempted = [p \in Procs |-> {}]
  /\ writesSucceeded = 0
  /\ settled = NeverSettled
  /\ AggregationInit
  /\ dedupInput = <<>>
  /\ dedupResult = NoResult
  /\ WarningIdle

\* The steps of an invocation that is not dying.
Work(p) ==
  \/ FetchUnprocessed(p)
  \/ ProcessEvent(p)
  \/ MapProductArea(p)
  \/ QueryRecent(p)
  \/ WriteSignal(p)
  \/ MarkProcessed(p)

\* Invocations one at a time, no raw event added.
NextBacklog ==
  \/ \E p \in SeqProcs : Work(p)
  \/ \E p \in SeqProcs : Crash(p)

\* The route is invoked again and again, and an invocation that does not
\* die goes on; storage calls fail and invocations die within the failure
\* budget only.
SpecBacklog == InitBacklog /\ [][NextBacklog]_vars /\ WF_vars(\E p \in SeqProcs : Work(p))

\* Invocations may overlap.
NextConc ==
  \/ ScrapeConc
  \/ Tick
  \/ \E p \in Procs : Step(p)

SpecConc == Init /\ [][NextConc]_vars

\* ------------------------------------------------------ aggregation engine
\* Time of the aggregation engine is counted in units of 150 seconds, so the
\* five minutes of the cache are 2 units.
\* Largest value of Date.now().
MaxTime == 3
\* Largest number of rows of the signals table.
MaxRows == 2

\* 5 * 60 * 1000 ms, in units of 150 seconds.
CACHE_DURATION_MS == 2

\* timeWindowMinutes (2.5 and 5 minutes, in units) and productAreaId of the
\* calls.
Windows == {1, 2}
AreaArgs == {undefined, "pa-network"}

\* Largest number of calculateCHI and getCHITrend calls.
MaxCalls == 2

\* The columns a writer can give a row: sentiment (thousandths), intensity
\* (which may be 0 or null) and product area.
RowKinds ==
  {[sentiment |-> 0 - 800, intensity |-> 10, product_area_id |-> "pa-network"],
   [sentiment |-> 200, intensity |-> 5, product_area_id |-> "pa-network"],
   [sentiment |-> 1000, intensity |-> 0, product_area_id |-> "pa-billing"],
   [sentiment |-> 0 - 1000, product_area_id |-> "pa-network"]}

\* number | null
NoData == [data |-> FALSE, value |-> 0]
Data(v) == [data |-> TRUE, value |-> v]

\* `chi_${timeWindowMinutes}_${productAreaId || 'all'}`
cacheKey(timeWindowMinutes, areaId) ==
  <<"chi", timeWindowMinutes, IF areaId = undefined THEN "all" ELSE areaId>>

\* Map.set
mapSet(map, key, value) ==
  [k \in DOMAIN map \cup {key} |-> IF k = key THEN value ELSE map[k]]

\* An entry that still counts as fresh at the age of CACHE_DURATION_MS.
isFreshInclusive(cached, t) == t - cached.timestamp <= CACHE_DURATION_MS

\* cached && Date.now() - cached.timestamp < CACHE_DURATION_MS
isFresh(cached, t) == t - cached.timestamp < CACHE_DURATION_MS

\* cached value is returned
cacheHit(timeWindowMinutes, areaId, useCache) ==
  /\ useCache
  /\ cacheKey(timeWindowMinutes, areaId) \in DOMAIN chiCache
  /\ isFresh(chiCache[cacheKey(timeWindowMinutes, areaId)], dateNow)

\* .gte('detected_at', timeThreshold) and, with a productAreaId,
\* .eq('product_area_id', productAreaId)
selectSince(rows, timeThreshold, areaId) ==
  SelectSeq(rows, LAMBDA r :
    /\ r.detected_at >= timeThreshold
    /\ areaId = undefined \/ r.product_area_id = areaId)

\* The same with .lt('detected_at', before)
selectBetween(rows, timeThreshold, before, areaId) ==
  SelectSeq(rows, LAMBDA r :
    /\ r.detected_at >= timeThreshold
    /\ r.detected_at < before
    /\ areaId = undefined \/ r.product_area_id = areaId)

\* signal.sentiment || 0 and signal.intensity || 1
sentimentOrZero(signal) == IF "sentiment" \in DOMAIN signal THEN signal.sentiment ELSE 0
\* A weight that is the recorded intensity even when that is 0.
intensityAsRecorded(signal) == IF "intensity" \in DOMAIN signal THEN signal.intensity ELSE 1

intensityOrOne(signal) ==
  IF "intensity" \in DOMAIN signal /\ signal.intensity # 0 THEN signal.intensity ELSE 1

totalWeightedSentimentOf(signalsData) ==
  SumSet([i \in DOMAIN signalsData |->
            sentimentOrZero(signalsData[i]) * intensityOrOne(signalsData[i])],
         DOMAIN signalsData)

totalIntensityOf(signalsData) ==
  SumSet([i \in DOMAIN signalsData |-> intensityOrOne(signalsData[i])], DOMAIN signalsData)

\* Math.round(((avgSentiment + 1) / 2) * 100) for avgSentiment =
\* totalWeightedSentiment / totalIntensity, the sentiment in thousandths:
\* the floor of (tws / (1000 ti) + 1) * 50 + 1/2.
roundedScore(totalWeightedSentiment, totalIntensity) ==
  (totalWeightedSentiment + 1010 * totalIntensity) \div (20 * totalIntensity)

\* { data, error } of a query: the selected rows, or an error and no data.
answerOf(queryOk, rows) == [ok |-> queryOk, data |-> IF queryOk THEN rows ELSE <<>>]

\* A computation that reports the neutral score when it has no signals.
scoreOfNeutral(answer) ==
  IF ~answer.ok THEN NoData
  ELSE IF Len(answer.data) = 0 THEN Data(50)
  ELSE Data(Max(0, Min(100, roundedScore(totalWeightedSentimentOf(answer.data),
                                         totalIntensityOf(answer.data)))))

\* calculateCHI from the answer of its query to its return value.
scoreOf(answer) ==
  IF ~answer.ok \/ Len(answer.data) = 0 THEN NoData
  ELSE LET totalWeightedSentiment == totalWeightedSentimentOf(answer.data)
           totalIntensity == totalIntensityOf(answer.data)
       IN IF totalIntensity = 0 THEN NoData
          ELSE Data(Max(0, Min(100, roundedScore(totalWeightedSentiment, totalIntensity))))

\* previousCHI of getCHITrend from the answer of its query; no data gives
\* the trend 0.
previousScoreOf(answer) ==
  IF ~answer.ok \/ Len(answer.data) = 0 THEN NoData
  ELSE LET totalWeightedSentiment == totalWeightedSentimentOf(answer.data)
           totalIntensity == totalIntensityOf(answer.data)
       IN IF totalIntensity = 0 THEN NoData
          ELSE Data(roundedScore(totalWeightedSentiment, totalIntensity))

\* A trend whose calculateCHI call uses the cache.
useCacheOfTrendDefault == TRUE

\* The third argument of the calculateCHI call of getCHITrend.
useCacheOfTrend == FALSE

idsOf(rows) == {rows[i].id : i \in DOMAIN rows}

\* A writer stores a signal detected now.
StoreSignal ==
  /\ Len(signalRows) < MaxRows
  /\ \E kind \in RowKinds :
       signalRows' = Append(signalRows,
         kind @@ [id |-> Len(signalRows) + 1, detected_at |-> dateNow])
  /\ UNCHANGED <<dateNow, chiCache, computedFrom, call, pipelineVars, dedupVars, warningVars>>

\* Time passes.
Elapse ==
  /\ dateNow < MaxTime
  /\ dateNow' = dateNow + 1
  /\ UNCHANGED <<signalRows, chiCache, computedFrom, call, pipelineVars, dedupVars, warningVars>>

\* What a call keeps once it has returned.
returned(c, result) ==
  [stage |-> "returned", n |-> c.n, op |-> c.op,
   timeWindowMinutes |-> c.timeWindowMinutes, productAreaId |-> c.productAreaId,
   cached |-> c.cached, result |-> result]

\* calculateCHI up to the answer of its query: a fresh cache entry is
\* returned at once, otherwise the query is sent and answers with the rows
\* or with an error.
CallCHI ==
  /\ call.stage \in {"idle", "returned"}
  /\ call.n < MaxCalls
  /\ \E timeWindowMinutes \in Windows, areaId \in AreaArgs, useCache \in {TRUE} :
       LET args == [op |-> "calculateCHI", n |-> call.n + 1,
                    timeWindowMinutes |-> timeWindowMinutes, productAreaId |-> areaId,
                    cached |-> cacheHit(timeWindowMinutes, areaId, useCache)]
       IN IF args.cached
          THEN call' = returned(args, Data(chiCache[cacheKey(timeWindowMinutes, areaId)].value))
          ELSE \E queryOk \in BOOLEAN :
                 call' = args @@ [stage |-> "fetched",
                                  signals |-> answerOf(queryOk, selectSince(signalRows, dateNow - timeWindowMinutes, areaId))]
  /\ UNCHANGED <<dateNow, signalRows, chiCache, computedFrom, pipelineVars, dedupVars, warningVars>>

\* The cache after calculateCHI has computed result for the call c.
cacheAfter(c, result) ==
  IF result.data
  THEN mapSet(chiCache, cacheKey(c.timeWindowMinutes, c.productAreaId),
              [value |-> result.value, timestamp |-> dateNow, productAreaId |-> c.productAreaId])
  ELSE chiCache

computedFromAfter(c, result) ==
  IF result.data
  THEN mapSet(computedFrom, cacheKey(c.timeWindowMinutes, c.productAreaId),
              [timeWindowMinutes |-> c.timeWindowMinutes, productAreaId |-> c.productAreaId,
               rows |-> c.signals.data])
  ELSE computedFrom

\* calculateCHI from the answer of its query to its return.
ReturnCHI ==
  /\ call.stage = "fetched"
  /\ call.op = "calculateCHI"
  /\ LET result == scoreOf(call.signals) IN
     /\ chiCache' = cacheAfter(call, result)
     /\ computedFrom' = computedFromAfter(call, result)
     /\ call' = returned(call, result)
  /\ UNCHANGED <<dateNow, signalRows, pipelineVars, dedupVars, warningVars>>

\* getCHITrend up to the answer of the query of its calculateCHI call.
CallTrend ==
  /\ call.stage \in {"idle", "returned"}
  /\ call.n < MaxCalls
  /\ \E timeWindowMinutes \in Windows, areaId \in AreaArgs, queryOk \in BOOLEAN :
       call' = [op |-> "getCHITrend", n |-> call.n + 1, stage |-> "fetched",
                timeWindowMinutes |-> timeWindowMinutes, productAreaId |-> areaId,
                cached |-> cacheHit(timeWindowMinutes, areaId, useCacheOfTrend),
                signals |-> answerOf(queryOk, selectSince(signalRows, dateNow - timeWindowMinutes, areaId))]
  /\ UNCHANGED <<dateNow, signalRows, chiCache, computedFrom, pipelineVars, dedupVars, warningVars>>

\* currentCHI of getCHITrend: what its calculateCHI call returns.
currentCHIOf(c) ==
  IF c.cached
  THEN Data(chiCache[cacheKey(c.timeWindowMinutes, c.productAreaId)].value)
  ELSE scoreOf(c.signals)

\* getCHITrend from the return of calculateCHI to the answer of its own
\* query: without a current score the trend is 0; otherwise the window
\* bounds are taken from Date.now() and the previous window is queried.
TrendCurrent ==
  /\ call.stage = "fetched"
  /\ call.op = "getCHITrend"
  /\ LET currentCHI == currentCHIOf(call)
         currentWindowStart == dateNow - call.timeWindowMinutes
         previousWindowStart == currentWindowStart - call.timeWindowMinutes
     IN /\ chiCache' = IF call.cached THEN chiCache ELSE cacheAfter(call, currentCHI)
        /\ computedFrom' = IF call.cached THEN computedFrom
                           ELSE computedFromAfter(call, currentCHI)
        /\ IF ~currentCHI.data
           THEN call' = returned(call, 0)
           ELSE \E queryOk \in BOOLEAN :
                  call' = [call EXCEPT !.stage = "previous"]
                            @@ [currentCHI |-> currentCHI,
                                previousSignals |->
                                  answerOf(queryOk, selectBetween(signalRows, previousWindowStart, currentWindowStart, call.productAreaId))]
  /\ UNCHANGED <<dateNow, signalRows, pipelineVars, dedupVars, warningVars>>

\* The trend from the current score and the previous one.
trendOf(currentCHI, previousCHI) ==
  IF previousCHI.data THEN currentCHI.value - previousCHI.value ELSE 0

\* getCHITrend from the answer of its query to its return.
ReturnTrend ==
  /\ call.stage = "previous"
  /\ call' = returned(call, trendOf(call.currentCHI, previousScoreOf(call.previousSignals)))
  /\ UNCHANGED <<dateNow, signalRows, chiCache, computedFrom, pipelineVars, dedupVars, warningVars>>

NextCHI ==
  \/ StoreSignal
  \/ Elapse
  \/ CallCHI
  \/ ReturnCHI
  \/ CallTrend
  \/ TrendCurrent
  \/ ReturnTrend

SpecCHI == Init /\ [][NextCHI]_vars

\* ------------------------------------------------- deduplicator on lists
\* Largest number of signals handed to the deduplicator at once.
MaxSignals == 3

\* Times of detection, in ticks of thirty minutes.
DedupTimes == 0..2

\* Sentiments in thousandths; multiples of 12, so that the halves, quarters
\* and thirds the deduplicator takes of their sums are whole thousandths.
DedupSentiments == {0 - 960, 480, 960}

DedupKeywords ==
  {<<"network", "outage", "dallas">>, <<"Network", "down", "dallas">>, <<"Dallas">>, <<>>}

\* A Signal of the deduplicator.
Signal(area, at, keywords, sentiment, meta) ==
  [product_area |-> area, detected_at |-> at, keywords |-> keywords,
   sentiment |-> sentiment, source |-> "reddit", meta |-> meta]

\* The signals the deduplicator is tried on: signals of the Network area,
\* and signals of the Billing area that have been merged into once before.
SignalPool ==
  {Signal("Network", t, k, x, EmptyMap) :
     t \in DedupTimes, k \in DedupKeywords, x \in DedupSentiments}
  \cup {Signal("Billing", t, <<"network", "outage", "dallas">>, 480, [duplicate_count |-> 2]) :
          t \in DedupTimes}

SignalLists == UNION {[1..n -> SignalPool] : n \in 1..MaxSignals}

InitDedup ==
  /\ PipelineInit
  /\ AggregationInit
  /\ dedupInput \in SignalLists
  /\ dedupResult = NoResult
  /\ WarningIdle

\* A representative that is the first signal of its group.
selectRepresentativeFirst(sigs) == sigs[1]

\* The comparator of the sort: a sorts before b.
sortsBefore(a, b) ==
  \/ Abs(a.sentiment) > Abs(b.sentiment)
  \/ Abs(a.sentiment) = Abs(b.sentiment) /\ a.detected_at < b.detected_at

\* sorted[0] of the stable sort: the first of the signals that no other
\* sorts before.
selectRepresentative(sigs) ==
  IF Len(sigs) = 1 THEN sigs[1]
  ELSE LET firsts == {i \in DOMAIN sigs :
                        \A j \in DOMAIN sigs : ~sortsBefore(sigs[j], sigs[i])}
       IN sigs[CHOOSE i \in firsts : \A j \in firsts : i <= j]

\* sum / signals.length; exact for the sentiments of the model.
calculateAvgSentiment(sigs) ==
  IF Len(sigs) = 0 THEN 0
  ELSE SumSet([i \in DOMAIN sigs |-> sigs[i].sentiment], DOMAIN sigs) \div Len(sigs)

\* A scan that collects none of the duplicates it finds.
inOrderNone(indices) == <<>>

\* The indices of a set in increasing order.
RECURSIVE inOrder(_)
inOrder(indices) ==
  IF indices = {} THEN <<>>
  ELSE LET i == CHOOSE x \in indices : \A y \in indices : x <= y
       IN <<i>> \o inOrder(indices \ {i})

\* A pass that marks only the signal it started from.
groupedAfterSeedOnly(grouped, i, found) == grouped \cup {i}

\* grouped after the pass of signal i: grouped.add(j) for each duplicate
\* found, then grouped.add(i).
groupedAfter(grouped, i, found) == grouped \cup found \cup {i}

\* The outer loop of groupDuplicates from index i on.  positions is history:
\* where in the input the members of the group stood.
RECURSIVE groupsFrom(_, _, _)
groupsFrom(sigs, i, grouped) ==
  IF i > Len(sigs) THEN <<>>
  ELSE IF i \in grouped THEN groupsFrom(sigs, i + 1, grouped)
  ELSE LET found == {j \in (i + 1)..Len(sigs) :
                       j \notin grouped /\ areDuplicates(sigs[i], sigs[j])}
           order == <<i>> \o inOrder(found)
           duplicates == [k \in DOMAIN order |-> sigs[order[k]]]
       IN <<[representative |-> selectRepresentative(duplicates),
             duplicates |-> duplicates,
             positions |-> order,
             intensity |-> Len(duplicates),
             avgSentiment |-> calculateAvgSentiment(duplicates)]>>
          \o groupsFrom(sigs, i + 1, groupedAfter(grouped, i, found))

groupDuplicates(sigs) ==
  IF Len(sigs) = 0 THEN <<>> ELSE groupsFrom(sigs, 1, {})

\* The signal mergeSignals returns: existing with the merged fields.
mergeSignalsResult(existing, newSignal) == mergeSignals(existing, newSignal) @@ existing

\* areDuplicates on the first two signals.
CheckDuplicates ==
  /\ dedupResult.op = "none"
  /\ Len(dedupInput) >= 2
  /\ dedupResult' = [op |-> "areDuplicates",
                     result |-> areDuplicates(dedupInput[1], dedupInput[2])]
  /\ UNCHANGED <<dedupInput, pipelineVars, aggregationVars, warningVars>>

\* calculateKeywordSimilarity and areDuplicates on the first two signals,
\* in both orders of the arguments, and the similarity of the first with
\* itself.
CompareKeywords ==
  /\ dedupResult.op = "none"
  /\ Len(dedupInput) = 2
  /\ LET s1 == dedupInput[1]
         s2 == dedupInput[2]
     IN dedupResult' =
          [op |-> "calculateKeywordSimilarity",
           forward |-> calculateKeywordSimilarity(s1.keywords, s2.keywords),
           backward |-> calculateKeywordSimilarity(s2.keywords, s1.keywords),
           self |-> calculateKeywordSimilarity(s1.keywords, s1.keywords),
           duplicatesForward |-> areDuplicates(s1, s2),
           duplicatesBackward |-> areDuplicates(s2, s1)]
  /\ UNCHANGED <<dedupInput, pipelineVars, aggregationVars, warningVars>>

\* groupDuplicates on the signals.
GroupDuplicates ==
  /\ dedupResult.op = "none"
  /\ dedupResult' = [op |-> "groupDuplicates", groups |-> groupDuplicates(dedupInput)]
  /\ UNCHANGED <<dedupInput, pipelineVars, aggregationVars, warningVars>>

\* groupDuplicates again, on the representatives of the groups and on the
\* signals the groups started from.
GroupRepresentatives ==
  /\ dedupResult.op = "groupDuplicates"
  /\ LET groups == dedupResult.groups IN
     dedupResult' =
       [op |-> "regrouped",
        groups |-> groups,
        ofRepresentatives |->
          groupDuplicates([g \in DOMAIN groups |-> groups[g].representative]),
        ofFirsts |->
          groupDuplicates([g \in DOMAIN groups |-> groups[g].duplicates[1]])]
  /\ UNCHANGED <<dedupInput, pipelineVars, aggregationVars, warningVars>>

\* mergeSignals of the second and the third signal into the first, in both
\* orders.
MergeTwice ==
  /\ dedupResult.op = "none"
  /\ Len(dedupInput) = 3
  /\ LET X == dedupInput[1]
         A == dedupInput[2]
         B == dedupInput[3]
     IN dedupResult' = [op |-> "mergeSignals",
                        AthenB |-> mergeSignalsResult(mergeSignalsResult(X, A), B),
                        BthenA |-> mergeSignalsResult(mergeSignalsResult(X, B), A)]
  /\ UNCHANGED <<dedupInput, pipelineVars, aggregationVars, warningVars>>

NextDedup ==
  \/ CheckDuplicates
  \/ CompareKeywords
  \/ GroupDuplicates
  \/ GroupRepresentatives
  \/ MergeTwice

SpecDedup == InitDedup /\ [][NextDedup]_vars

\* ------------------------------------------------------------ early warning
\* The routes /api/cron/capture-snapshots and /api/insights/early-warning.
\* Times are minutes; both routes read the clock at WarningNow.
WarningNow == 20000
HOUR == 60
DAY == 1440
SEVEN_DAYS == 10080
criticalThreshold == 100
avgUsersPerSignal == 100
TOP_ISSUES == 5

\* The runs of the capture route in a behaviour.
MaxCaptures == 2

\* The (topic, product_area_id) pairs of the signals.
WarningGroups ==
  << [topic |-> "outage",   product_area_id |-> "pa-network"],
     [topic |-> "billing",  product_area_id |-> "pa-billing"],
     [topic |-> "roaming",  product_area_id |-> "pa-network"],
     [topic |-> "coverage", product_area_id |-> "pa-network"],
     [topic |-> "login",    product_area_id |-> "pa-account"],
     [topic |-> "outage",   product_area_id |-> "pa-billing"] >>

\* A stored intensity and how long before WarningNow it was stored.
Aged(intensity, age) == [intensity |-> intensity, age |-> age]

\* What the tables hold of one pair: its signals and its snapshots.
Profiles ==
  [none      |-> [signals |-> <<>>, snapshots |-> <<>>],
   example   |-> [signals |-> <<Aged(60, 30)>>,
                  snapshots |-> <<Aged(20, 130), Aged(60, 10)>>],
   estimate  |-> [signals |-> <<Aged(5, 50), Aged(7, 10)>>, snapshots |-> <<>>],
   fresh     |-> [signals |-> <<Aged(5, 50), Aged(5, 3)>>, snapshots |-> <<>>],
   sixMin    |-> [signals |-> <<Aged(5, 50), Aged(7, 6)>>, snapshots |-> <<>>],
   busy      |-> [signals |-> <<Aged(30, 20), Aged(40, 10)>>,
                  snapshots |-> <<Aged(10, 100)>>],
   edge      |-> [signals |-> <<Aged(30, 20)>>,
                  snapshots |-> <<Aged(0, 1440), Aged(121, 0)>>],
   steep     |-> [signals |-> <<Aged(50, 15), Aged(40, 5)>>,
                  snapshots |-> <<Aged(10, 480), Aged(20, 420), Aged(30, 360),
                                  Aged(40, 300), Aged(50, 240), Aged(60, 180),
                                  Aged(70, 120), Aged(80, 60), Aged(90, 0)>>],
   declining |-> [signals |-> <<Aged(20, 10)>>,
                  snapshots |-> <<Aged(60, 120), Aged(20, 0)>>],
   sameTime  |-> [signals |-> <<Aged(8, 10)>>,
                  snapshots |-> <<Aged(10, 60), Aged(70, 60)>>],
   critical  |-> [signals |-> <<Aged(50, 20), Aged(70, 10)>>,
                  snapshots |-> <<Aged(40, 60), Aged(120, 0)>>],
   single    |-> [signals |-> <<Aged(50, 30)>>, snapshots |-> <<Aged(10, 60)>>],
   old       |-> [signals |-> <<Aged(4, 1441), Aged(4, 1440), Aged(9, 61),
                                Aged(9, 60), [age |-> 20]>>,
                  snapshots |-> <<Aged(5, 10081), Aged(5, 10080), Aged(6, 1441)>>]]

\* The profile of each pair of WarningGroups.
Scenarios ==
  { <<"none", "none", "none", "none", "none", "none">>,
    <<"example", "estimate", "fresh", "edge", "steep", "declining">>,
    <<"example", "estimate", "busy", "edge", "steep", "critical">>,
    <<"old", "sameTime", "single", "sixMin", "critical", "none">>,
    <<"old", "old", "example", "none", "none", "fresh">> }

\* The signals of a pair under a profile, as rows of the signals table.
signalRowsOf(g, profile) ==
  [k \in DOMAIN profile.signals |->
     LET s == profile.signals[k] IN
     IF "intensity" \in DOMAIN s
     THEN [topic |-> g.topic, product_area_id |-> g.product_area_id,
           intensity |-> s.intensity, detected_at |-> WarningNow - s.age]
     ELSE [topic |-> g.topic, product_area_id |-> g.product_area_id,
           detected_at |-> WarningNow - s.age]]

\* The snapshots of a pair under a profile, as rows of
\* signal_intensity_snapshots.
snapshotRowsOf(g, profile) ==
  [k \in DOMAIN profile.snapshots |->
     LET s == profile.snapshots[k] IN
     [topic |-> g.topic, product_area_id |-> g.product_area_id,
      intensity |-> s.intensity, signal_count |-> 1,
      snapshot_at |-> WarningNow - s.age]]

RECURSIVE signalsOfScenario(_, _)
signalsOfScenario(scenario, g) ==
  IF g > Len(scenario) THEN <<>>
  ELSE signalRowsOf(WarningGroups[g], Profiles[scenario[g]])
         \o signalsOfScenario(scenario, g + 1)

RECURSIVE snapshotsOfScenario(_, _)
snapshotsOfScenario(scenario, g) ==
  IF g > Len(scenario) THEN <<>>
  ELSE snapshotRowsOf(WarningGroups[g], Profiles[scenario[g]])
         \o snapshotsOfScenario(scenario, g + 1)

\* The tables hold a scenario and no request has been made.
InitWarning ==
  /\ PipelineInit
  /\ AggregationInit
  /\ dedupInput = <<>>
  /\ dedupResult = NoResult
  /\ \E scenario \in Scenarios :
       /\ warningSignals = signalsOfScenario(scenario, 1)
       /\ snapshotRows = snapshotsOfScenario(scenario, 1)
  /\ capture = [stage |-> "idle", runs |-> 0]
  /\ rising = NoRequest

\* ---- ordering
\* x put into a sequence sorted by k, behind the elements of the same k.
RECURSIVE insertByKey(_, _)
insertByKey(sorted, x) ==
  IF sorted = <<>> THEN <<x>>
  ELSE IF x.k < Head(sorted).k THEN <<x>> \o sorted
  ELSE <<Head(sorted)>> \o insertByKey(Tail(sorted), x)

RECURSIVE sortByKey(_)
sortByKey(pairs) ==
  IF pairs = <<>> THEN <<>>
  ELSE insertByKey(sortByKey(SubSeq(pairs, 1, Len(pairs) - 1)), pairs[Len(pairs)])

\* rows in ascending order of key, rows of equal key in their order in rows.
orderBy(rows, key(_)) ==
  LET sorted == sortByKey([i \in DOMAIN rows |-> [k |-> key(rows[i]), v |-> rows[i]]])
  IN [i \in DOMAIN sorted |-> sorted[i].v]

\* signal.intensity || 0
intensityOrZero(s) == IF "intensity" \in DOMAIN s THEN s.intensity ELSE 0

\* The position in issueMap of the entry of the pair of s, 0 when it has none.
issueOf(issueMap, s) ==
  IF \E k \in DOMAIN issueMap :
       issueMap[k].topic = s.topic /\ issueMap[k].productAreaId = s.product_area_id
  THEN CHOOSE k \in DOMAIN issueMap :
         issueMap[k].topic = s.topic /\ issueMap[k].productAreaId = s.product_area_id
  ELSE 0

\* ---- capture-snapshots
\* The Map of the capture route over the rows the signals query returned, in
\* the order of the first row of each pair.
RECURSIVE groupCaptured(_, _)
groupCaptured(rows, issueMap) ==
  IF rows = <<>> THEN issueMap
  ELSE LET s == Head(rows)
           k == issueOf(issueMap, s)
       IN groupCaptured(Tail(rows),
            IF k # 0
            THEN [issueMap EXCEPT ![k] =
                    [@ EXCEPT !.totalIntensity = @ + intensityOrZero(s),
                              !.signalCount = @ + 1]]
            ELSE Append(issueMap,
                   [topic |-> s.topic, productAreaId |-> s.product_area_id,
                    totalIntensity |-> intensityOrZero(s), signalCount |-> 1]))

\* Array.from(issueMap.values()).map(...)
snapshotsFrom(issueMap) ==
  [k \in DOMAIN issueMap |->
     [topic |-> issueMap[k].topic,
      product_area_id |-> issueMap[k].productAreaId,
      intensity |-> issueMap[k].totalIntensity,
      signal_count |-> issueMap[k].signalCount,
      snapshot_at |-> WarningNow]]

\* A clean-up that also takes the snapshots that are seven days old.
isExpiredInclusive(row) == row.snapshot_at <= WarningNow - SEVEN_DAYS

\* .lt('snapshot_at', sevenDaysAgo)
isExpired(row) == row.snapshot_at < WarningNow - SEVEN_DAYS

\* GET of capture-snapshots: the secret and the header are checked, the
\* signals of the last 24 hours are grouped, one snapshot per pair is
\* inserted, the old snapshots are deleted; an error of the delete is logged.
CaptureSnapshots ==
  /\ UNCHANGED <<pipelineVars, aggregationVars, dedupVars>>
  /\ capture.runs < MaxCaptures
  /\ \E cronSecret, authorized, signalsOk, insertOk, deleteOk \in BOOLEAN :
       LET recent == SelectSeq(warningSignals,
                       LAMBDA s : s.detected_at >= WarningNow - DAY)
           snapshots == snapshotsFrom(groupCaptured(recent, <<>>))
           inserted == snapshotRows \o snapshots
           run == capture.runs + 1
       IN IF ~cronSecret
          THEN /\ capture' = [stage |-> "done", runs |-> run, status |-> 500,
                              success |-> FALSE, error |-> "Server configuration error"]
               /\ UNCHANGED snapshotRows
          ELSE IF ~authorized
          THEN /\ capture' = [stage |-> "done", runs |-> run, status |-> 401,
                              success |-> FALSE, error |-> "Unauthorized"]
               /\ UNCHANGED snapshotRows
          ELSE IF ~signalsOk
          THEN /\ capture' = [stage |-> "done", runs |-> run, status |-> 500,
                              success |-> FALSE, error |-> "signalsError"]
               /\ UNCHANGED snapshotRows
          ELSE IF Len(snapshots) > 0 /\ ~insertOk
          THEN /\ capture' = [stage |-> "done", runs |-> run, status |-> 500,
                              success |-> FALSE, error |-> "insertError"]
               /\ UNCHANGED snapshotRows
          ELSE /\ capture' = [stage |-> "done", runs |-> run, status |-> 200,
                              success |-> TRUE,
                              snapshotsCaptured |-> Len(snapshots),
                              deleteError |-> ~deleteOk]
               /\ snapshotRows' = IF deleteOk
                                  THEN SelectSeq(inserted, LAMBDA r : ~isExpired(r))
                                  ELSE inserted
  /\ UNCHANGED <<warningSignals, rising>>

\* ---- early-warning
\* A rational number; den is positive.
Frac(n, d) == [num |-> n, den |-> d]

\* Math.round of ten times a fraction that is not negative.
roundTenths(f) == (20 * f.num + f.den) \div (2 * f.den)

\* Math.round of a fraction that is not negative.
roundUnits(f) == (2 * f.num + f.den) \div (2 * f.den)

\* .gte('detected_at', oneHourAgo).order('detected_at', {ascending: false})
recentSignalsOf(rows) ==
  orderBy(SelectSeq(rows, LAMBDA s : s.detected_at >= WarningNow - HOUR),
          LAMBDA s : 0 - s.detected_at)

\* The Map of the early-warning route over the rows of its signals query.
RECURSIVE groupRecent(_, _)
groupRecent(rows, issueMap) ==
  IF rows = <<>> THEN issueMap
  ELSE LET s == Head(rows)
           k == issueOf(issueMap, s)
       IN groupRecent(Tail(rows),
            IF k # 0
            THEN [issueMap EXCEPT ![k] =
                    [@ EXCEPT !.totalIntensity = @ + intensityOrZero(s),
                              !.signalCount = @ + 1,
                              !.latestTimestamp = Max(@, s.detected_at)]]
            ELSE Append(issueMap,
                   [topic |-> s.topic, productAreaId |-> s.product_area_id,
                    totalIntensity |-> intensityOrZero(s), signalCount |-> 1,
                    latestTimestamp |-> s.detected_at]))

\* The snapshots query of one issue: the last 24 hours, oldest first.
snapshotsOf(rows, issue) ==
  orderBy(SelectSeq(rows, LAMBDA r : /\ r.topic = issue.topic
                                     /\ r.product_area_id = issue.productAreaId
                                     /\ r.snapshot_at >= WarningNow - DAY),
          LAMBDA r : r.snapshot_at)

\* A confidence that grows with the snapshots without a cap.
snapshotConfidenceUncapped(n) == 50 + 5 * n

\* Math.min(0.9, 0.5 + snapshots.length / 20), in hundredths
snapshotConfidence(n) == Min(90, 50 + 5 * n)

\* (criticalThreshold - totalIntensity) / velocity, or 0
timeToSpread(totalIntensity, velocity) ==
  IF velocity.num > 0 /\ totalIntensity < criticalThreshold
  THEN Frac((criticalThreshold - totalIntensity) * velocity.den, velocity.num)
  ELSE Frac(0, 1)

\* The body of the loop over issueMap between the snapshots query and the
\* push: velocity per hour, projected intensity, confidence in hundredths
\* and hours to the critical threshold.
assessIssue(issue, snapshots) ==
  LET total == issue.totalIntensity
      n == Len(snapshots)
      defaults == [velocity |-> Frac(0, 1), projectedIntensity |-> Frac(total, 1),
                   confidence |-> 50, timeToSpreadHours |-> Frac(0, 1)]
  IN IF n >= 2
     THEN LET timeDiff == snapshots[n].snapshot_at - snapshots[1].snapshot_at
              intensityChange == snapshots[n].intensity - snapshots[1].intensity
              velocity == Frac(HOUR * intensityChange, timeDiff)
          IN IF timeDiff > 0
             THEN [velocity |-> velocity,
                   projectedIntensity |->
                     IF intensityChange > 0
                     THEN Frac(total * timeDiff + 2 * HOUR * intensityChange, timeDiff)
                     ELSE Frac(total, 1),
                   confidence |-> snapshotConfidence(n),
                   timeToSpreadHours |-> timeToSpread(total, velocity)]
             ELSE defaults
     ELSE IF issue.signalCount > 1
     THEN LET sinceFirstSignal == WarningNow - issue.latestTimestamp
              elapsed == Max(sinceFirstSignal, HOUR)
              velocity == Frac(HOUR * total, elapsed)
          IN IF 10 * sinceFirstSignal > HOUR
             THEN [velocity |-> velocity,
                   projectedIntensity |-> Frac(total * elapsed + 2 * HOUR * total, elapsed),
                   confidence |-> 30,
                   timeToSpreadHours |-> timeToSpread(total, velocity)]
             ELSE defaults
     ELSE defaults

\* if (velocity > 5)
isRising(velocity) == velocity.num > 5 * velocity.den

\* The entry pushed for a rising issue: velocity and hours in tenths,
\* confidence in hundredths.
risingEntry(issue, a) ==
  [topic |-> issue.topic,
   productAreaId |-> issue.productAreaId,
   currentIntensity |-> issue.totalIntensity,
   velocity |-> roundTenths(a.velocity),
   projectedIntensity |-> roundUnits(a.projectedIntensity),
   timeToSpreadHours |-> roundTenths(a.timeToSpreadHours),
   affectedUsers |-> issue.totalIntensity * avgUsersPerSignal,
   confidence |-> a.confidence]

\* A list returned in the order of the pushes.
sortByVelocityNot(entries) == entries

\* risingIssues.sort((a, b) => b.velocity - a.velocity)
sortByVelocity(entries) == orderBy(entries, LAMBDA e : 0 - e.velocity)

\* A snapshots error that ends the request with an error response.
afterSnapshotsErrorFail(req, issue) ==
  [stage |-> "done", status |-> 500, success |-> FALSE, seen |-> req.seen,
   issues |-> req.issues,
   assessed |-> Append(req.assessed, [topic |-> issue.topic,
                                      productAreaId |-> issue.productAreaId,
                                      outcome |-> "skipped"])]

\* if (snapshotsError) { ...; continue }
afterSnapshotsError(req, issue) ==
  [req EXCEPT !.idx = @ + 1,
              !.assessed = Append(@, [topic |-> issue.topic,
                                      productAreaId |-> issue.productAreaId,
                                      outcome |-> "skipped"])]

\* GET of early-warning up to the loop: the signals of the last hour are
\* read and grouped; an error of the query is the response.
CallRising ==
  /\ UNCHANGED <<pipelineVars, aggregationVars, dedupVars>>
  /\ rising.stage # "assessing"
  /\ \E signalsOk \in BOOLEAN :
       LET recent == recentSignalsOf(warningSignals) IN
       rising' = IF ~signalsOk
                 THEN [stage |-> "done", status |-> 500, success |-> FALSE,
                       seen |-> <<>>, issues |-> <<>>, assessed |-> <<>>]
                 ELSE [stage |-> "assessing", seen |-> recent,
                       issues |-> groupRecent(recent, <<>>), idx |-> 1,
                       risingIssues |-> <<>>, assessed |-> <<>>]
  /\ UNCHANGED <<warningSignals, snapshotRows, capture>>

\* One pass of the loop over issueMap: the snapshots of the issue are read;
\* on an error the issue is skipped; else it is assessed and pushed when its
\* velocity is above 5.
AssessIssue ==
  /\ UNCHANGED <<pipelineVars, aggregationVars, dedupVars>>
  /\ rising.stage = "assessing"
  /\ rising.idx <= Len(rising.issues)
  /\ \E snapshotsOk \in BOOLEAN :
       LET issue == rising.issues[rising.idx]
           snapshots == snapshotsOf(snapshotRows, issue)
           a == assessIssue(issue, snapshots)
       IN rising' =
            IF ~snapshotsOk
            THEN afterSnapshotsError(rising, issue)
            ELSE [rising EXCEPT
                    !.idx = @ + 1,
                    !.risingIssues = IF isRising(a.velocity)
                                     THEN Append(@, risingEntry(issue, a)) ELSE @,
                    !.assessed = Append(@, a @@ [topic |-> issue.topic,
                                                 productAreaId |-> issue.productAreaId,
                                                 outcome |-> "assessed",
                                                 totalIntensity |-> issue.totalIntensity,
                                                 signalCount |-> issue.signalCount,
                                                 snapshots |-> snapshots])]
  /\ UNCHANGED <<warningSignals, snapshotRows, capture>>

\* GET of early-warning after the loop: the issues pushed are sorted by
\* velocity and the first five are returned.
ReturnRising ==
  /\ UNCHANGED <<pipelineVars, aggregationVars, dedupVars>>
  /\ rising.stage = "assessing"
  /\ rising.idx > Len(rising.issues)
  /\ LET sorted == sortByVelocity(rising.risingIssues) IN
     rising' = [stage |-> "done", status |-> 200, success |-> TRUE,
                risingIssues |-> SubSeq(sorted, 1, Min(TOP_ISSUES, Len(sorted))),
                totalRising |-> Len(sorted),
                pushed |-> rising.risingIssues,
                seen |-> rising.seen,
                issues |-> rising.issues,
                assessed |-> rising.assessed]
  /\ UNCHANGED <<warningSignals, snapshotRows, capture>>

NextWarning ==
  \/ CaptureSnapshots
  \/ CallRising
  \/ AssessIssue
  \/ ReturnRising

SpecWarning == InitWarning /\ [][NextWarning]_vars

\* ------------------------------------------------------------------ claims
\* A stored row and a candidate as the duplicate rule reads them: the product
\* area by its id, the keywords of the row from its meta.
StoredSignal(r) ==
  [product_area |-> r.product_area_id, keywords |-> r.meta.keywords, detected_at |-> r.detected_at]

CandidateSignal(c, areaId) ==
  [product_area |-> areaId, keywords |-> c.keywords, detected_at |-> c.detected_at]

\* Same product area, within 30 minutes, keyword Jaccard >= 0.5.
RowsDuplicate(a, b) ==
  a.product_area_id # null /\ areDuplicates(StoredSignal(a), StoredSignal(b))

CandidateDuplicates(c, areaId, r) ==
  areaId # null /\ areDuplicates(CandidateSignal(c, areaId), StoredSignal(r))

\* The candidate of the item an invocation is about to write.
candidate(p) == newSignalOf(item(p).text, event(p), now)

\* The step is the successful write of invocation p.
WroteOk(p) == pc[p] = "write" /\ pc'[p] # "crashed" /\ pc'[p] # pc[p] /\ writesSucceeded' = writesSucceeded + 1

SumIntensity(rows) == SumSet([i \in DOMAIN rows |-> rows[i].intensity], DOMAIN rows)

\* C1: every item written merges into the first stored duplicate of its
\* candidate (sentiment averaged, intensity raised by one, no row added) when
\* there is one, and otherwise adds exactly one row of intensity 1.
C1_MergeOrInsert ==
  [][\A p \in Procs :
       WroteOk(p) =>
         LET c == candidate(p)
             dups == {i \in DOMAIN signals : CandidateDuplicates(c, productAreaId[p], signals[i])}
         IN IF dups # {}
            THEN LET first == CHOOSE i \in dups : \A j \in dups : i <= j
                 IN /\ Len(signals') = Len(signals)
                    /\ signals'[first].sentiment = (signals[first].sentiment + c.sentiment) \div 2
                    /\ signals'[first].intensity = signals[first].intensity + 1
                    /\ \A j \in DOMAIN signals : j # first => signals'[j] = signals[j]
            ELSE /\ Len(signals') = Len(signals) + 1
                 /\ signals'[Len(signals')].intensity = 1
                 /\ \A j \in DOMAIN signals : signals'[j] = signals[j]]_vars

\* C2: with one invocation at a time, no two stored signals are duplicates of
\* each other.
C2_NoStoredDuplicates ==
  \A i, j \in DOMAIN signals : i # j => ~RowsDuplicate(signals[i], signals[j])

\* C3: every stored signal has sentiment in [-1, 1] and intensity >= 1, and
\* the scorer's result for every item being processed has its score in
\* [-1, 1] and its confidence in [0, 1]; a merge of the candidate into any
\* stored signal keeps both ranges.
C3_SentimentAndIntensityInRange ==
  /\ \A i \in DOMAIN signals :
       /\ signals[i].sentiment >= 0 - 1000 /\ signals[i].sentiment <= 1000
       /\ signals[i].intensity >= 1
  /\ \A p \in Procs :
       pc[p] \in {"map", "query", "write"} =>
         LET r == analyzeSentiment(item(p).text)
         IN /\ r.score >= 0 - 1000 /\ r.score <= 1000
            /\ r.confidence >= 0 /\ r.confidence <= 1000
  /\ \A p \in Procs : \A i \in DOMAIN signals :
       pc[p] = "write" =>
         LET merged == updateSignal(signals, signals[i], candidate(p))[i]
         IN /\ merged.sentiment >= 0 - 1000 /\ merged.sentiment <= 1000
            /\ merged.intensity >= 1

\* A stored signal whose raw score lay beyond the scorer's usual range, one
\* scored from a text the scorer threw on, and one from an empty text.
C3_Witness ==
  /\ \E i \in DOMAIN signals :
       signals[i].meta.original_text = tRave.id /\ signals[i].sentiment = 1000
  /\ \E i \in DOMAIN signals :
       signals[i].meta.original_text = tEmpty.id /\ signals[i].meta.sentiment_confidence = 0

\* C4: the intensities of the stored signals add up to the number of writes
\* that succeeded, and a merge into any stored signal would add exactly 1.
C4_IntensityCountsWrites ==
  /\ SumIntensity(signals) = writesSucceeded
  /\ \A p \in Procs : \A i \in DOMAIN signals :
       pc[p] = "write" =>
         SumIntensity(updateSignal(signals, signals[i], candidate(p))) = SumIntensity(signals) + 1

\* Three reports stored, and one write that failed.
C4_Witness ==
  /\ writesSucceeded = 3
  /\ faults = 1
  /\ pc[1] = "flag"
  /\ Cardinality(attempted[1]) = 4

\* ---- the batch
batchIds(p) == {unprocessedEvents[p][i].id : i \in DOMAIN unprocessedEvents[p]}

flagged(rows) == {rows[i].id : i \in {j \in DOMAIN rows : rows[j].processed}}

\* Every item of every event of a batch, as <<event id, position>>.
allItems(batch) ==
  UNION {{<<batch[i].id, k>> :
            k \in DOMAIN extractIndividualItems(batch[i].raw_payload, batch[i].source)} :
         i \in DOMAIN batch}

signalsOf(eventId) == {i \in DOMAIN signals : signals[i].meta.raw_event_id = eventId}

Complete(r) == r.status = 200 /\ r.message = "Processing complete"

\* C5: a processed flag changes only in the one bulk write of an invocation
\* whose loop has gone through every event and attempted every item of the
\* batch, and that write flags the batch at once; while an invocation is in
\* its loop none of its events is flagged, and an invocation that dies leaves
\* all of them unflagged.
C5_FlagsOnlyByBulkWriteAfterLoop ==
  [][/\ flagged(raw_events') # flagged(raw_events) =>
          \E p \in Procs :
            /\ pc[p] = "flag" /\ pc'[p] = "done"
            /\ evIdx[p] > Len(unprocessedEvents[p])
            /\ allItems(unprocessedEvents[p]) \subseteq attempted[p]
            /\ flagged(raw_events') = flagged(raw_events) \cup batchIds(p)
     /\ \A p \in Procs :
          pc[p] \in {"event", "map", "query", "write"} => batchIds(p) \cap flagged(raw_events) = {}
     /\ \A p \in Procs :
          Active(p) /\ pc'[p] = "crashed" => batchIds(p) \cap flagged(raw_events') = {}]_vars

\* An invocation died after it had stored a signal for its second event, and
\* no event is flagged.
C5_Witness ==
  /\ pc[1] = "crashed"
  /\ Len(raw_events) = 2
  /\ flagged(raw_events) = {}
  /\ signalsOf(2) # {}

\* C6: whichever items failed, an invocation reaches its bulk write with every
\* item of every event of its batch attempted and every event counted, and it
\* ends with the completed response.
C6_ItemFailureNeverAbortsBatch ==
  [][\A p \in Procs :
       /\ pc[p] = "flag" =>
            /\ attempted[p] = allItems(unprocessedEvents[p])
            /\ Len(processedEventIds[p]) = Len(unprocessedEvents[p])
       /\ pc[p] \in {"event", "map", "query", "write", "flag"} /\ pc'[p] = "done" =>
            /\ pc[p] = "flag"
            /\ Complete(response'[p])]_vars

\* An item of the first event failed to be stored, and the invocation went on
\* to store a signal of the second event and reached its bulk write.
C6_Witness ==
  /\ pc[1] = "flag"
  /\ Len(unprocessedEvents[1]) = 2
  /\ Cardinality(signalsOf(1)) <
       Len(extractIndividualItems(unprocessedEvents[1][1].raw_payload, unprocessedEvents[1][1].source))
  /\ signalsOf(2) # {}
  /\ totalSignalsCreated[1] < Cardinality(attempted[1])

\* C7: with overlapping invocations, a write whose own query had found nothing
\* adds a row of intensity 1 for its item whatever the table holds by then.
C7_WriteTrustsItsOwnQuery ==
  [][\A p \in Procs :
       WroteOk(p) /\ recentSignals[p] = <<>> =>
         /\ Len(signals') = Len(signals) + 1
         /\ signals'[Len(signals')].intensity = 1
         /\ signals'[Len(signals')].meta.original_text = item(p).text.id
         /\ \A j \in DOMAIN signals : signals'[j] = signals[j]]_vars

\* No storage call has failed; an invocation is about to write an item for
\* which its query found nothing, and the table holds, within the window of
\* that query, a duplicate of its candidate, stored since.
C7_Witness ==
  \E p \in Procs :
    /\ faults = 0
    /\ pc[p] = "write"
    /\ productAreaId[p] # null
    /\ recentSignals[p] = <<>>
    /\ \E i \in DOMAIN signals :
         /\ CandidateDuplicates(candidate(p), productAreaId[p], signals[i])
         /\ signals[i].detected_at >= now - RECENT_WINDOW

\* C8: after an invocation that completed and had every pending raw event in
\* its batch, and with no raw event added since, the stored signals stay as
\* that invocation left them (number, sentiment and intensity of each).
C8_RetryLeavesSignalsUnchanged ==
  settled.valid /\ settled.attemptedAll /\ Len(raw_events) = settled.n =>
    /\ Len(signals) = Len(settled.signals)
    /\ \A i \in DOMAIN signals :
         /\ signals[i].sentiment = settled.signals[i].sentiment
         /\ signals[i].intensity = settled.signals[i].intensity

Unknown(e) == e.source \notin (ArraySources \cup ObjectSources \cup {"istheservicedown"})

\* C9: no stored signal comes from a raw event of an unknown source; such an
\* event is among the events the invocation that fetched it hands to its bulk
\* write, with every other event of the batch, is flagged when that write is
\* not refused, and the invocation ends with the completed response.
C9_UnknownSourceYieldsNothing ==
  [][/\ \A i \in DOMAIN signals' : ~Unknown(raw_events[signals'[i].meta.raw_event_id])
     /\ \A p \in Procs :
          pc[p] = "flag" /\ pc'[p] = "done" =>
            /\ batchIds(p) = Range(processedEventIds[p])
            /\ attempted[p] = allItems(unprocessedEvents[p])
            /\ Complete(response'[p])
            /\ faults' = faults =>
                 \A i \in DOMAIN unprocessedEvents[p] :
                   Unknown(unprocessedEvents[p][i]) =>
                     raw_events'[unprocessedEvents[p][i].id].processed]_vars

\* A batch began with an event of an unknown source: both events are flagged,
\* the first has no signal, the second has.
C9_Witness ==
  /\ Len(raw_events) = 2
  /\ Unknown(raw_events[1])
  /\ raw_events[1].processed /\ raw_events[2].processed
  /\ signalsOf(1) = {}
  /\ signalsOf(2) # {}

\* C10 as stated: a write for an item whose product area was not found stores
\* nothing and ends the invocation with an error.
C10_MissingAreaIsFatal ==
  [][\A p \in Procs :
       pc[p] = "write" /\ productAreaId[p] = null /\ pc'[p] # pc[p] /\ pc'[p] # "crashed" =>
         /\ signals' = signals
         /\ pc'[p] = "done"
         /\ response'[p].status = 500]_vars

\* C10 amended: an item whose product area was not found (no such row, or the
\* lookup failed) is not checked for duplicates and, when its write succeeds,
\* is stored as a new signal of intensity 1 without a product area, and the
\* invocation goes on.
C10_MissingAreaStoredWithoutArea ==
  [][\A p \in Procs :
       pc[p] = "write" /\ productAreaId[p] = null =>
         /\ recentSignals[p] = <<>>
         /\ WroteOk(p) =>
              /\ Len(signals') = Len(signals) + 1
              /\ signals'[Len(signals')].product_area_id = null
              /\ signals'[Len(signals')].intensity = 1
              /\ signals'[Len(signals')].meta.original_text = item(p).text.id
              /\ \A j \in DOMAIN signals : signals'[j] = signals[j]
              /\ pc'[p] \in {"map", "event", "flag"}]_vars

\* A signal stored without a product area because the classifier named an
\* area that is no row of the reference table, and one because the lookup
\* failed.
C10_Witness ==
  /\ \E i \in DOMAIN signals :
       signals[i].product_area_id = null /\ signals[i].meta.original_text = tRave.id
  /\ \E i \in DOMAIN signals :
       signals[i].product_area_id = null /\ signals[i].meta.original_text = tOutage.id

\* ---- the aggregation engine
\* The steps in which calculateCHI returns: from the cache at the call, or
\* after its query.
ReturnsCached == call.stage \in {"idle", "returned"} /\ call'.n = call.n + 1 /\ call'.stage = "returned"

ReturnsComputed == call.stage = "fetched" /\ call.op = "calculateCHI" /\ call'.stage = "returned"

\* The rows that match the window and the area of the call c at time t.
matchingAt(c, t) == selectSince(signalRows, t - c.timeWindowMinutes, c.productAreaId)

keyOf(c) == cacheKey(c.timeWindowMinutes, c.productAreaId)

\* C11 as stated: a calculateCHI call with default caching made when no
\* stored signal matches its window and area returns no data.
C11_NoMatchGivesNoData ==
  [][/\ ReturnsCached /\ Len(matchingAt(call', dateNow)) = 0 => ~call'.result.data
     /\ ReturnsComputed /\ Len(call.signals.data) = 0 => ~call'.result.data]_vars

\* C11 amended: a call that finds no entry younger than five minutes under
\* its key and whose query matches no signal returns no data and leaves the
\* cache as it is; a call that finds such an entry returns the entry's score,
\* whatever matches by then; and the cache never holds anything but a score.
C11_NoMatchGivesNoDataUnlessCached ==
  [][/\ ReturnsComputed /\ Len(call.signals.data) = 0 =>
          ~call'.result.data /\ chiCache' = chiCache
     /\ ReturnsCached =>
          /\ keyOf(call') \in DOMAIN chiCache
          /\ dateNow - chiCache[keyOf(call')].timestamp < CACHE_DURATION_MS
          /\ call'.result = Data(chiCache[keyOf(call')].value)
     /\ \A k \in DOMAIN chiCache' : chiCache'[k].value \in 0..100]_vars

\* A call has returned a cached score although every stored signal of its
\* area was older than its window already when the entry was stored.
C11_Witness ==
  /\ call.stage = "returned"
  /\ call.op = "calculateCHI"
  /\ call.cached
  /\ call.result.data
  /\ Len(signalRows) > 0
  /\ \A i \in DOMAIN signalRows :
       signalRows[i].detected_at < chiCache[keyOf(call)].timestamp - call.timeWindowMinutes

\* The weight of a stored signal: its intensity, 1 when that is 0 or missing.
weight(r) == IF "intensity" \in DOMAIN r THEN (IF r.intensity = 0 THEN 1 ELSE r.intensity) ELSE 1

\* n = round(((S + 1) / 2) * 100) for S = sum(sentiment * weight) / sum(weight):
\* n - 1/2 <= (S + 1) * 50 < n + 1/2, cleared of fractions.
IsRoundedIndex(rows, n) ==
  LET W == SumSet([i \in DOMAIN rows |-> rows[i].sentiment * weight(rows[i])], DOMAIN rows)
      T == SumSet([i \in DOMAIN rows |-> weight(rows[i])], DOMAIN rows)
  IN /\ 40 * T * n <= 2 * W + 2020 * T
     /\ 2 * W + 2020 * T < 40 * T * (n + 1)

\* C12: a score computed from a non-empty set of matching signals is
\* clamp[0,100](round(((S + 1) / 2) * 100)) with the signals weighted by
\* their intensity, or by 1 when that is 0 or missing; it is an integer of
\* 0..100.
C12_ScoreIsRoundedWeightedMean ==
  [][ReturnsComputed /\ call.signals.ok /\ Len(call.signals.data) > 0 =>
       /\ call'.result.data
       /\ call'.result.value \in 0..100
       /\ \E n \in (0 - 1)..101 :
            /\ IsRoundedIndex(call.signals.data, n)
            /\ call'.result.value = Max(0, Min(100, n))]_vars

\* The score 27 computed from the pairs (-0.8, 10) and (0.2, 5).
C12_Witness ==
  /\ call.stage = "returned"
  /\ call.op = "calculateCHI"
  /\ ~call.cached
  /\ call.productAreaId = undefined
  /\ call.result = Data(27)
  /\ Len(signalRows) = 2
  /\ signalRows[1].sentiment = 0 - 800 /\ signalRows[1].intensity = 10
  /\ signalRows[2].sentiment = 200 /\ signalRows[2].intensity = 5
  /\ computedFrom[keyOf(call)].rows = signalRows

\* C13: a score returned from the cache is that of an entry stored under the
\* key of the call less than five minutes before the call, computed for the
\* same window and area from signals stored then; a call that uses the cache
\* returns such an entry whenever there is one, whatever was written since,
\* and never an entry aged five minutes or more.
C13_CacheStalenessBounded ==
  [][/\ ReturnsCached =>
          LET e == chiCache[keyOf(call')]
              h == computedFrom[keyOf(call')]
          IN /\ dateNow - e.timestamp < CACHE_DURATION_MS
             /\ call'.result = Data(e.value)
             /\ h.timeWindowMinutes = call'.timeWindowMinutes
             /\ h.productAreaId = call'.productAreaId
             /\ Data(e.value) = scoreOf([ok |-> TRUE, data |-> h.rows])
             /\ \A i \in DOMAIN h.rows : h.rows[i] = signalRows[h.rows[i].id]
     /\ call.stage \in {"idle", "returned"} /\ call'.n = call.n + 1
          /\ call'.op = "calculateCHI" =>
            (call'.stage = "returned" <=>
               /\ keyOf(call') \in DOMAIN chiCache
               /\ dateNow - chiCache[keyOf(call')].timestamp < CACHE_DURATION_MS)]_vars

\* A call has returned a cached score although a signal that matches its
\* window and area was written after the score was computed.
C13_Witness ==
  /\ call.stage = "returned"
  /\ call.op = "calculateCHI"
  /\ call.cached
  /\ dateNow = chiCache[keyOf(call)].timestamp + 1
  /\ \E i \in DOMAIN matchingAt(call, dateNow) :
       matchingAt(call, dateNow)[i].id \notin idsOf(computedFrom[keyOf(call)].rows)
  /\ scoreOf([ok |-> TRUE, data |-> matchingAt(call, dateNow)]) # call.result

InTrend == call.stage \in {"fetched", "previous"} /\ call.op = "getCHITrend"

\* C14 as stated: getCHITrend takes its current score from the table, not
\* from the cache, and leaves the cache as it found it.
C14_TrendLeavesCacheUnchanged ==
  [][InTrend => ~call.cached /\ chiCache' = chiCache]_vars

\* C14 amended: getCHITrend takes its current score from the table even when
\* a fresh entry exists under its key, and stores that score under the key
\* with the time of the computation; only without a current score is the
\* cache left as it was.
C14_TrendBypassesButRefreshesCache ==
  [][InTrend =>
       /\ ~call.cached
       /\ call.stage = "previous" => chiCache' = chiCache
       /\ call.stage = "fetched" /\ call'.stage # "fetched" =>
            LET currentCHI == scoreOf(call.signals) IN
            /\ call'.stage = "previous" => call'.currentCHI = currentCHI
            /\ call'.stage = "returned" => ~currentCHI.data /\ call'.result = 0
            /\ chiCache' =
                 IF currentCHI.data
                 THEN mapSet(chiCache, keyOf(call),
                             [value |-> currentCHI.value, timestamp |-> dateNow,
                              productAreaId |-> call.productAreaId])
                 ELSE chiCache]_vars

\* getCHITrend has passed a fresh entry under its key whose score is not the
\* one the table gives now, and has stored the new score.
C14_Witness ==
  /\ call.stage = "previous"
  /\ ~call.cached
  /\ Len(signalRows) = 2
  /\ computedFrom[keyOf(call)].rows = call.signals.data
  /\ chiCache[keyOf(call)].value = call.currentCHI.value
  /\ call.n = 2
  /\ Len(call.signals.data) = 2
  /\ signalRows[1].detected_at < signalRows[2].detected_at
  /\ scoreOf([ok |-> TRUE, data |-> <<signalRows[1]>>]) # call.currentCHI

\* C15: the trend is the score of the current window minus the score of the
\* window before it, 0 when that window holds no signal, and no stored signal
\* counts in both windows.
C15_TrendOfDisjointWindows ==
  [][call.stage = "previous" /\ call'.stage = "returned" =>
       /\ idsOf(call.signals.data) \cap idsOf(call.previousSignals.data) = {}
       /\ Len(call.previousSignals.data) = 0 => call'.result = 0
       /\ call.previousSignals.ok /\ Len(call.previousSignals.data) > 0 =>
            call'.result = scoreOf(call.signals).value - scoreOf(call.previousSignals).value]_vars

\* ---- the deduplicator on lists
\* The case-folded keyword set of a signal.
folded(signal) == {toLowerCase(k) : k \in Range(signal.keywords)}

\* Jaccard similarity of two sets at least 1/2; the similarity of two empty
\* sets counts as 0.
JaccardAtLeastHalf(set1, set2) ==
  /\ set1 \cup set2 # {}
  /\ 2 * Cardinality(set1 \cap set2) >= Cardinality(set1 \cup set2)

AllSingletons(groups) == \A g \in DOMAIN groups : groups[g].intensity = 1

\* C17 as stated: a second pass of groupDuplicates over the representatives
\* of a first pass gives one group of one signal for each representative.
C17_RegroupingKeepsRepresentativesApart ==
  dedupResult.op = "regrouped" =>
    /\ Len(dedupResult.ofRepresentatives) = Len(dedupResult.groups)
    /\ AllSingletons(dedupResult.ofRepresentatives)
    /\ \A g \in DOMAIN dedupResult.groups :
         dedupResult.ofRepresentatives[g].representative = dedupResult.groups[g].representative

\* C17 amended: a second pass over the signals the groups started from
\* gives one group of one signal for each; so does a second pass over the
\* representatives when each representative is the signal its group
\* started from.
C17_RegroupingKeepsFirstsApart ==
  dedupResult.op = "regrouped" =>
    /\ Len(dedupResult.ofFirsts) = Len(dedupResult.groups)
    /\ AllSingletons(dedupResult.ofFirsts)
    /\ (\A g \in DOMAIN dedupResult.groups :
          dedupResult.groups[g].representative = dedupResult.groups[g].duplicates[1])
         => /\ Len(dedupResult.ofRepresentatives) = Len(dedupResult.groups)
            /\ AllSingletons(dedupResult.ofRepresentatives)

\* A first pass has formed a group of two signals and a group of one, each
\* represented by the signal it started from, and the second pass has kept
\* the two representatives apart.
C17_Witness ==
  /\ dedupResult.op = "regrouped"
  /\ Len(dedupResult.groups) = 2
  /\ dedupResult.groups[1].intensity = 2
  /\ \A g \in DOMAIN dedupResult.groups :
       dedupResult.groups[g].representative = dedupResult.groups[g].duplicates[1]
  /\ dedupResult.groups[1].representative.product_area
       = dedupResult.groups[2].representative.product_area
  /\ Len(dedupResult.ofRepresentatives) = 2

\* The earliest detected_at of the three signals merged.
EarliestOfThree ==
  Min(dedupInput[1].detected_at, Min(dedupInput[2].detected_at, dedupInput[3].detected_at))

\* C18 as stated: merging A then B into X gives the sentiment of merging B
\* then A; in both orders detected_at is the earliest of the three and
\* duplicate_count has grown by one for each merge.
C18_MergeOrderIndependent ==
  dedupResult.op = "mergeSignals" =>
    /\ dedupResult.AthenB.sentiment = dedupResult.BthenA.sentiment
    /\ dedupResult.AthenB.detected_at = EarliestOfThree
    /\ dedupResult.BthenA.detected_at = EarliestOfThree
    /\ dedupResult.AthenB.meta.duplicate_count = duplicateCountOrOne(dedupInput[1]) + 2
    /\ dedupResult.BthenA.meta.duplicate_count = duplicateCountOrOne(dedupInput[1]) + 2

\* C18 amended: the sentiment after merging A then B into X is
\* (X + A + 2B) / 4, so the two orders agree exactly when A and B have the
\* same sentiment; in both orders detected_at is the earliest of the three
\* and duplicate_count has grown by one for each merge.
C18_MergeWeighsLastMost ==
  dedupResult.op = "mergeSignals" =>
    LET X == dedupInput[1]
        A == dedupInput[2]
        B == dedupInput[3]
    IN /\ 4 * dedupResult.AthenB.sentiment = X.sentiment + A.sentiment + 2 * B.sentiment
       /\ 4 * dedupResult.BthenA.sentiment = X.sentiment + B.sentiment + 2 * A.sentiment
       /\ dedupResult.AthenB.sentiment = dedupResult.BthenA.sentiment
            <=> A.sentiment = B.sentiment
       /\ dedupResult.AthenB.detected_at = EarliestOfThree
       /\ dedupResult.BthenA.detected_at = EarliestOfThree
       /\ dedupResult.AthenB.meta.duplicate_count = duplicateCountOrOne(X) + 2
       /\ dedupResult.BthenA.meta.duplicate_count = duplicateCountOrOne(X) + 2

\* Two candidates of different sentiment have been merged, in both orders,
\* into a signal that had been merged into before and is the latest of the
\* three.
C18_Witness ==
  /\ dedupResult.op = "mergeSignals"
  /\ dedupInput[2].sentiment # dedupInput[3].sentiment
  /\ dedupResult.AthenB.sentiment # dedupResult.BthenA.sentiment
  /\ duplicateCountOrOne(dedupInput[1]) = 2
  /\ dedupResult.AthenB.meta.duplicate_count = 4
  /\ dedupInput[1].detected_at > dedupInput[3].detected_at
  /\ dedupInput[3].detected_at > dedupInput[2].detected_at
  /\ dedupResult.BthenA.detected_at = dedupInput[2].detected_at

\* ---- the merge of ingestion
\* C19: when ingestion merges the candidate it is about to write into a
\* stored signal that is a duplicate of it, the stored signal's detected_at
\* afterwards is the earlier of its previous one and the candidate's.
C19_MergeKeepsEarlierTimestamp ==
  \A p \in Procs :
    pc[p] = "write" =>
      \A i \in DOMAIN signals :
        CandidateDuplicates(candidate(p), productAreaId[p], signals[i]) =>
          updateSignal(signals, signals[i], candidate(p))[i].detected_at
            = Min(signals[i].detected_at, candidate(p).detected_at)

\* C20: the representative of a group is a member of it with the largest
\* |sentiment|, and the earliest detected_at among the members with that
\* |sentiment|; the intensity of the group is the number of its members and
\* its avgSentiment the mean of their sentiments.
C20_RepresentativeIntensityAndMean ==
  dedupResult.op = "groupDuplicates" =>
    \A g \in DOMAIN dedupResult.groups :
      LET group == dedupResult.groups[g]
          members == group.duplicates
      IN /\ group.representative \in Range(members)
         /\ \A m \in Range(members) :
              /\ Abs(group.representative.sentiment) >= Abs(m.sentiment)
              /\ Abs(m.sentiment) = Abs(group.representative.sentiment)
                   => group.representative.detected_at <= m.detected_at
         /\ group.intensity = Len(members)
         /\ group.avgSentiment * Len(members)
              = SumSet([i \in DOMAIN members |-> members[i].sentiment], DOMAIN members)

\* A group of three signals whose third is the representative: it has the
\* |sentiment| of the second and is earlier, and more than the first.
C20_Witness ==
  /\ dedupResult.op = "groupDuplicates"
  /\ Len(dedupResult.groups) = 1
  /\ dedupResult.groups[1].intensity = 3
  /\ dedupResult.groups[1].representative = dedupInput[3]
  /\ Abs(dedupInput[1].sentiment) < Abs(dedupInput[3].sentiment)
  /\ Abs(dedupInput[2].sentiment) = Abs(dedupInput[3].sentiment)
  /\ dedupInput[3].detected_at < dedupInput[2].detected_at
  /\ dedupResult.groups[1].avgSentiment = 160

\* C21: the keyword similarity is the same in both orders of its arguments,
\* is 1 for a non-empty list and itself, and lies in [0, 1]; areDuplicates
\* is the same in both orders of its arguments.
C21_SimilaritySymmetric ==
  dedupResult.op = "calculateKeywordSimilarity" =>
    /\ dedupResult.forward.num * dedupResult.backward.den
         = dedupResult.backward.num * dedupResult.forward.den
    /\ \A sim \in {dedupResult.forward, dedupResult.backward, dedupResult.self} :
         sim.den > 0 /\ 0 <= sim.num /\ sim.num <= sim.den
    /\ Len(dedupInput[1].keywords) > 0 => dedupResult.self.num = dedupResult.self.den
    /\ dedupResult.duplicatesForward = dedupResult.duplicatesBackward

\* Two signals with keyword lists of different lengths and a similarity of
\* 1/3 have been compared in both orders; they are not duplicates.
C21_Witness ==
  /\ dedupResult.op = "calculateKeywordSimilarity"
  /\ Len(dedupInput[1].keywords) = 1
  /\ Len(dedupInput[2].keywords) = 3
  /\ dedupResult.forward = [num |-> 1, den |-> 3]
  /\ dedupResult.backward = [num |-> 1, den |-> 3]
  /\ dedupResult.self = [num |-> 1, den |-> 1]
  /\ ~dedupResult.duplicatesForward

\* The positions taken by the groups before group g.
positionsBefore(groups, g) == UNION {Range(groups[h].positions) : h \in 1..(g - 1)}

\* C27: the groups of groupDuplicates partition the positions of the input;
\* their intensities add up to its length; the first member of a group is
\* the first signal no earlier group holds, and its other members are the
\* later signals no earlier group holds that are duplicates of the first, in
\* the order of the input.
C27_GroupsPartitionInput ==
  dedupResult.op = "groupDuplicates" =>
    LET groups == dedupResult.groups IN
    /\ UNION {Range(groups[g].positions) : g \in DOMAIN groups} = DOMAIN dedupInput
    /\ \A g, h \in DOMAIN groups :
         g # h => Range(groups[g].positions) \cap Range(groups[h].positions) = {}
    /\ SumSet([g \in DOMAIN groups |-> groups[g].intensity], DOMAIN groups) = Len(dedupInput)
    /\ \A g \in DOMAIN groups :
         LET positions == groups[g].positions
             first == positions[1]
             free == DOMAIN dedupInput \ positionsBefore(groups, g)
         IN /\ Len(groups[g].duplicates) = Len(positions)
            /\ \A k \in DOMAIN positions : groups[g].duplicates[k] = dedupInput[positions[k]]
            /\ \A k \in DOMAIN positions : \A l \in DOMAIN positions :
                 k < l => positions[k] < positions[l]
            /\ first \in free /\ \A j \in free : first <= j
            /\ Range(positions) \ {first}
                 = {j \in free : j > first /\ areDuplicates(dedupInput[first], dedupInput[j])}

\* Three signals have been grouped into the first with the third, and the
\* second alone.
C27_Witness ==
  /\ dedupResult.op = "groupDuplicates"
  /\ Len(dedupInput) = 3
  /\ Len(dedupResult.groups) = 2
  /\ dedupResult.groups[1].positions = <<1, 3>>
  /\ dedupResult.groups[2].positions = <<2>>
  /\ dedupInput[2].product_area = dedupInput[1].product_area

\* ---- merges and flags of ingestion
\* C28 as stated: ingestion merges by read, modify, write: a write whose own
\* query returned a duplicate of its candidate adds no row and sets the
\* intensity and the sentiment of that row from the copy the query returned,
\* whatever the table holds by then.
C28_MergeWritesFromItsOwnRead ==
  [][\A p \in Procs :
       WroteOk(p) =>
         LET c == candidate(p)
             read == recentSignals[p]
             dups == {i \in DOMAIN read : CandidateDuplicates(c, productAreaId[p], read[i])}
         IN dups # {} =>
              LET first == CHOOSE i \in dups : \A j \in dups : i <= j
                  at == CHOOSE i \in DOMAIN signals : signals[i].id = read[first].id
              IN /\ Len(signals') = Len(signals)
                 /\ signals'[at].intensity = duplicateCountOrOne(read[first]) + 1
                 /\ signals'[at].sentiment = (read[first].sentiment + c.sentiment) \div 2]_vars

AllFlagged == \A i \in DOMAIN raw_events : raw_events[i].processed

\* The unflagged events of the table, in the order of their creation.
pendingEvents == SelectSeq(raw_events, LAMBDA e : ~e.processed)

\* C30: with invocations one after the other, no raw event added and
\* storage calls that fail only finitely often, every raw event is flagged
\* in the end; an invocation takes the 100 oldest unflagged events, or all
\* when there are fewer, in the order of their creation; an invocation that
\* finds none leaves the tables as they are.
C30_BacklogDrains ==
  /\ <>[]AllFlagged
  /\ [][\A p \in SeqProcs :
          /\ ~Active(p) /\ pc'[p] = "event" =>
               /\ Len(unprocessedEvents'[p]) <= 100
               /\ unprocessedEvents'[p]
                    = SubSeq(pendingEvents, 1, Min(100, Len(pendingEvents)))
          /\ ~Active(p) /\ ~Active(p)' /\ Len(pendingEvents) = 0 =>
               raw_events' = raw_events /\ signals' = signals]_vars

\* A backlog of 102 events, none flagged at first, is flagged throughout
\* after a second invocation, and a storage call had failed or an invocation
\* died on the way.
C30_Witness ==
  /\ Len(raw_events) = 102
  /\ AllFlagged
  /\ pc[1] = "done"
  /\ Complete(response[1])
  /\ response[1].total = 2
  /\ faults = 1

\* ---- early warning
\* The issues the early-warning request has gone through so far.
AssessedIssues == IF rising.stage = "idle" THEN {} ELSE Range(rising.assessed)

\* Issues for which the snapshots query returned two snapshots or more.
WithSnapshots == {a \in AssessedIssues : a.outcome = "assessed" /\ Len(a.snapshots) >= 2}

\* Minutes between, and change of intensity from, the earliest to the latest
\* snapshot returned.
elapsedOf(a) == a.snapshots[Len(a.snapshots)].snapshot_at - a.snapshots[1].snapshot_at
changeOf(a) == a.snapshots[Len(a.snapshots)].intensity - a.snapshots[1].intensity

\* velocity = change / elapsed hours, confidence = min(0.9, 0.5 + count/20),
\* projected = max(current, current + 2 velocity), time to critical =
\* (100 - current) / velocity when velocity > 0 and current < 100, else 0.
FollowsSnapshotFormulas(a) ==
  LET current == a.totalIntensity
      gain == HOUR * changeOf(a)
  IN /\ a.velocity.num * elapsedOf(a) = gain * a.velocity.den
     /\ a.confidence = Min(90, 50 + 5 * Len(a.snapshots))
     /\ a.projectedIntensity.num * elapsedOf(a)
          = Max(current * elapsedOf(a), current * elapsedOf(a) + 2 * gain)
              * a.projectedIntensity.den
     /\ IF gain > 0 /\ current < 100
        THEN a.timeToSpreadHours.num * gain
               = (100 - current) * elapsedOf(a) * a.timeToSpreadHours.den
        ELSE a.timeToSpreadHours.num = 0

\* Nothing was computed: velocity 0, confidence 0.5, no projection.
KeepsDefaults(a) ==
  /\ a.velocity.num = 0
  /\ a.confidence = 50
  /\ a.projectedIntensity.num = a.totalIntensity * a.projectedIntensity.den
  /\ a.timeToSpreadHours.num = 0

\* Two snapshots 2 hours apart of intensity 20 and 60, current intensity 60.
IsExample(a) ==
  /\ Len(a.snapshots) = 2
  /\ elapsedOf(a) = 2 * HOUR
  /\ a.snapshots[1].intensity = 20
  /\ a.snapshots[2].intensity = 60
  /\ a.totalIntensity = 60

\* Velocity 20 per hour, projected intensity 100, 2 hours to critical, and
\* the confidence given.
ExampleGives(a, confidence) ==
  /\ a.velocity.num = 20 * a.velocity.den
  /\ a.confidence = confidence
  /\ a.projectedIntensity.num = 100 * a.projectedIntensity.den
  /\ a.timeToSpreadHours.num = 2 * a.timeToSpreadHours.den

\* C22 as stated: every issue with at least 2 snapshots in the last 24 hours
\* gets velocity, confidence, projection and time to critical by the
\* formulas, and the example gets velocity 20, confidence 0.55, projection
\* 100 and 2 hours.
C22_SnapshotFormulasAndExample ==
  \A a \in WithSnapshots :
    /\ FollowsSnapshotFormulas(a)
    /\ IsExample(a) => ExampleGives(a, 55)

\* C22 amended: the formulas apply when the latest snapshot is later than
\* the earliest; when both have the same time nothing is computed; the
\* example gets confidence 0.60.
C22_SnapshotFormulasWhenTimePassed ==
  \A a \in WithSnapshots :
    /\ IF elapsedOf(a) > 0 THEN FollowsSnapshotFormulas(a) ELSE KeepsDefaults(a)
    /\ IsExample(a) => ExampleGives(a, 60)

\* The request has returned the example with velocity 20.0, and has capped
\* the confidence of an issue of nine snapshots.
C22_Witness ==
  /\ rising.stage = "done"
  /\ rising.success
  /\ \E a \in WithSnapshots : IsExample(a)
  /\ \E a \in WithSnapshots : Len(a.snapshots) = 9 /\ a.confidence = 90
  /\ \E i \in DOMAIN rising.risingIssues :
       /\ rising.risingIssues[i].topic = "outage"
       /\ rising.risingIssues[i].velocity = 200
       /\ rising.risingIssues[i].confidence = 60
       /\ rising.risingIssues[i].projectedIntensity = 100
       /\ rising.risingIssues[i].timeToSpreadHours = 20

\* The detection times of the signals of the issue among those the request
\* read.
signalTimesOf(a) ==
  {rising.seen[i].detected_at : i \in {j \in DOMAIN rising.seen :
      /\ rising.seen[j].topic = a.topic
      /\ rising.seen[j].product_area_id = a.productAreaId}}

\* Minutes since the earliest signal of the issue.
sinceEarliest(a) ==
  WarningNow - (CHOOSE t \in signalTimesOf(a) : \A u \in signalTimesOf(a) : t <= u)

\* C23: an issue with fewer than 2 snapshots and more than 1 signal in the
\* current hour gets velocity = current intensity / hours since its earliest
\* signal and confidence 0.3 when at least 6 minutes have passed since that
\* signal; any other issue without snapshot data keeps velocity 0.
C23_EstimateFromEarliestSignal ==
  \A a \in AssessedIssues :
    a.outcome = "assessed" /\ Len(a.snapshots) < 2 =>
      IF a.signalCount > 1 /\ sinceEarliest(a) >= 6
      THEN /\ a.velocity.num * sinceEarliest(a) = HOUR * a.totalIntensity * a.velocity.den
           /\ a.confidence = 30
      ELSE a.velocity.num = 0

\* The request has returned.
Returned == rising.stage = "done" /\ rising.success

\* The entries pushed and not returned.
LeftOut == Range(rising.pushed) \ Range(rising.risingIssues)

\* At most 5 entries, in non-increasing order of velocity, and none left out
\* has a velocity above that of an entry returned.
TopFiveByVelocity ==
  /\ Len(rising.risingIssues) <= 5
  /\ \A i, j \in DOMAIN rising.risingIssues :
       i < j => rising.risingIssues[i].velocity >= rising.risingIssues[j].velocity
  /\ \A e \in LeftOut : \A i \in DOMAIN rising.risingIssues :
       e.velocity <= rising.risingIssues[i].velocity

\* C24 as stated: the list is the top 5 by velocity and every velocity
\* reported is above 5 per hour.
C24_TopFiveAboveFive ==
  Returned =>
    /\ TopFiveByVelocity
    /\ \A i \in DOMAIN rising.risingIssues : rising.risingIssues[i].velocity > 50

\* C24 amended: the list is the top 5 by the velocity reported; every entry
\* is of an issue whose velocity before rounding is above 5 per hour, and
\* the velocity reported, rounded to a tenth, is 5.0 or more.
C24_TopFiveOfIssuesAboveFive ==
  Returned =>
    /\ TopFiveByVelocity
    /\ \A i \in DOMAIN rising.risingIssues :
         LET e == rising.risingIssues[i] IN
         /\ e.velocity >= 50
         /\ \E a \in AssessedIssues :
              /\ a.topic = e.topic /\ a.productAreaId = e.productAreaId
              /\ a.outcome = "assessed"
              /\ a.velocity.num > 5 * a.velocity.den
              /\ 2 * a.velocity.den * e.velocity <= 20 * a.velocity.num + a.velocity.den
              /\ 20 * a.velocity.num + a.velocity.den < 2 * a.velocity.den * (e.velocity + 1)

\* Six issues are rising and the five of the highest velocity are returned.
C24_Witness ==
  /\ Returned
  /\ rising.totalRising = 6
  /\ Len(rising.risingIssues) = 5
  /\ \E e \in LeftOut : e.velocity = 50

\* ---- capture snapshots
\* A run of the capture route ends with the response success: true.
CaptureSucceeds == capture'.runs # capture.runs /\ capture'.success

\* The signals detected in the last 24 hours.
lastDay == SelectSeq(warningSignals, LAMBDA s : s.detected_at >= WarningNow - DAY)

RECURSIVE sumIntensity(_)
sumIntensity(rows) ==
  IF rows = <<>> THEN 0 ELSE intensityOrZero(Head(rows)) + sumIntensity(Tail(rows))

\* One snapshot per pair among the signals of the last 24 hours: the sum of
\* the intensities and the number of the signals of the pair.
SnapshotsDue ==
  { LET ofPair == SelectSeq(lastDay, LAMBDA s : /\ s.topic = lastDay[i].topic
                                                /\ s.product_area_id = lastDay[i].product_area_id)
    IN [topic |-> lastDay[i].topic,
        product_area_id |-> lastDay[i].product_area_id,
        intensity |-> sumIntensity(ofPair),
        signal_count |-> Len(ofPair),
        snapshot_at |-> WarningNow] : i \in DOMAIN lastDay }

\* The snapshots that are not older than 7 days.
NotOlderThanSevenDays ==
  SelectSeq(snapshotRows, LAMBDA r : r.snapshot_at >= WarningNow - SEVEN_DAYS)

\* The store after the step is kept, as it was, followed by the snapshots due.
StoreBecomes(kept) ==
  /\ Len(snapshotRows') = Len(kept) + Cardinality(SnapshotsDue)
  /\ SubSeq(snapshotRows', 1, Len(kept)) = kept
  /\ {snapshotRows'[i] : i \in (Len(kept) + 1)..Len(snapshotRows')} = SnapshotsDue

\* C25 as stated: a run that succeeds appends one snapshot per pair of the
\* signals of the last 24 hours and deletes every snapshot older than 7
\* days; the other snapshots and the signals are as before.
C25_SuccessAppendsAndDeletesOld ==
  [][CaptureSucceeds =>
       /\ StoreBecomes(NotOlderThanSevenDays)
       /\ warningSignals' = warningSignals]_vars

\* C25 amended: a run that succeeds appends one snapshot per pair; it
\* deletes every snapshot older than 7 days when its delete is accepted, and
\* deletes none when the delete is refused; the signals are as before.
C25_SuccessAppendsAndDeletesOldIfAccepted ==
  [][CaptureSucceeds =>
       /\ StoreBecomes(IF capture'.deleteError THEN snapshotRows
                       ELSE NotOlderThanSevenDays)
       /\ warningSignals' = warningSignals]_vars

\* A run has succeeded with its delete accepted: a snapshot of exactly 7
\* days is kept, none is older, and a pair of four signals in the last 24
\* hours, one of them without intensity, has its snapshot.
C25_Witness ==
  /\ capture.stage = "done"
  /\ capture.success
  /\ ~capture.deleteError
  /\ \E i \in DOMAIN snapshotRows : snapshotRows[i].snapshot_at = WarningNow - SEVEN_DAYS
  /\ \A i \in DOMAIN snapshotRows : snapshotRows[i].snapshot_at >= WarningNow - SEVEN_DAYS
  /\ \E i \in DOMAIN snapshotRows :
       /\ snapshotRows[i].snapshot_at = WarningNow
       /\ snapshotRows[i].signal_count = 4
       /\ snapshotRows[i].intensity = 22

\* ---- best effort
\* The issue at position k of the loop has been skipped or assessed.
TakenInTurn(k) ==
  /\ rising.assessed[k].topic = rising.issues[k].topic
  /\ rising.assessed[k].productAreaId = rising.issues[k].productAreaId

\* The entries pushed are those of the issues assessed with a velocity
\* above 5.
RankedAreAssessed ==
  /\ \A a \in AssessedIssues :
       a.outcome = "assessed" /\ a.velocity.num > 5 * a.velocity.den =>
         \E e \in Range(rising.pushed) :
           e.topic = a.topic /\ e.productAreaId = a.productAreaId
  /\ \A e \in Range(rising.pushed) :
       \E a \in AssessedIssues :
         /\ a.outcome = "assessed"
         /\ e.topic = a.topic /\ e.productAreaId = a.productAreaId

\* C26: once the signals are read, the request succeeds whatever the
\* snapshot queries return: an issue whose snapshot query fails is skipped,
\* every other issue is assessed, with its snapshots or without any, and the
\* issues assessed with a velocity above 5 are ranked.
C26_SnapshotFailuresAreSkipped ==
  /\ rising.stage = "assessing" =>
       /\ Len(rising.assessed) = rising.idx - 1
       /\ \A k \in DOMAIN rising.assessed : TakenInTurn(k)
  /\ rising.stage = "done" /\ rising.assessed # <<>> =>
       /\ rising.success
       /\ rising.status = 200
       /\ Len(rising.assessed) = Len(rising.issues)
       /\ \A k \in DOMAIN rising.assessed : TakenInTurn(k)
       /\ RankedAreAssessed
       /\ Len(rising.risingIssues) = Min(5, Len(rising.pushed))
       /\ Range(rising.risingIssues) \subseteq Range(rising.pushed)

\* The request has returned after a snapshot query that failed: that issue
\* is skipped, an issue without snapshots is assessed and returned, and so
\* is one with snapshots.
C26_Witness ==
  /\ Returned
  /\ \E a \in AssessedIssues : a.outcome = "skipped"
  /\ \E a \in AssessedIssues :
       /\ a.outcome = "assessed" /\ Len(a.snapshots) = 0
       /\ \E e \in Range(rising.risingIssues) :
            e.topic = a.topic /\ e.productAreaId = a.productAreaId
  /\ \E a \in AssessedIssues :
       /\ a.outcome = "assessed" /\ Len(a.snapshots) >= 2
       /\ \E e \in Range(rising.risingIssues) :
            e.topic = a.topic /\ e.productAreaId = a.productAreaId

====
